---- MODULE Spec2Model ----
(***************************************************************************)
(* Session, chunked transfer and real-time coordinator of the Ensto BLE    *)
(* thermostat manager (custom_components/hass_ensto_ble).                  *)
(*                                                                         *)
(* The manager's coroutines run on one asyncio event loop: the code        *)
(* between two awaits that really suspend runs without interleaving.  The  *)
(* variable cur holds the task that is running synchronous code (0 when    *)
(* the loop is free to resume any suspended task or let the environment    *)
(* act); a task's pc names the await it is suspended at, or the code       *)
(* position it runs next while it holds cur.                               *)
(***************************************************************************)
EXTENDS Integers, Sequences, FiniteSets, TLC

\* ---------------------------------------------------------------- bounds
NumTasks == 2          \* concurrently running callers (entity updates, services)
MaxOpsManager == 2     \* calls made where every operation may be called
MaxOps == 3            \* public operations started in one behaviour
MaxHandles == 2        \* transport handles establish_connection may hand out
MaxFrames == 2         \* frames the device sends for one chunked read
MaxTicks == 2          \* times the wall clock advances in one behaviour

Tasks == 1..NumTasks
None == 0              \* Python None for client / stored id / handle

VARIABLES
    client,            \* self.client: None or a transport handle
    connect_lock,      \* self._connect_lock: [owner, waiters]
    store,             \* credential store entry of mac_address: None or id
    nOpened,           \* handles handed out by establish_connection so far
    linkUp,            \* handles whose is_connected is True
    authDone,          \* handles whose authentication write has completed
    linkErr,           \* handles on which a BleakError has been reported
    hlog,              \* events of the connect sequence now holding the lock
    task,              \* per task: pc, op, pending exception, locals, result
    cur,               \* task running synchronous code, 0 = event loop idle
    opsLeft,           \* operations that may still be started
    last_data,         \* coordinator._last_data
    last_update,       \* coordinator._last_update
    update_lock,       \* coordinator._update_lock: [owner, waiters]
    failed,            \* the last coordinator attempt, if it failed and no call
                       \* has looked at the cache since: its max_age and the
                       \* callers then waiting for the lock
    clock,             \* time.time()
    ticks,             \* times the clock has advanced
    thermostat         \* what the device holds: the selected calendar
                       \* day, the frames of a record being received, the
                       \* stored day records and the vacation record

vars == <<client, connect_lock, store, nOpened,
          linkUp, authDone, linkErr, hlog, task, cur, opsLeft,
          last_data, last_update, update_lock, failed, clock, ticks, thermostat>>

sessionVars == <<client, connect_lock, store>>
linkVars == <<nOpened, linkUp, authDone, linkErr>>
coordVars == <<last_data, last_update, update_lock, failed>>
timeVars == <<clock, ticks>>

\* ------------------------------------------------------------- helpers
NoneV == [k |-> "None"]                \* a returned Python None
TrueV == [k |-> "True"]
FalseV == [k |-> "False"]
NoResult == [st |-> "none", val |-> NoneV]

\* a write the device acknowledged: characteristic and bytes
Written(c, bytes) == [c |-> c, bytes |-> bytes]
Ev(e, v) == [e |-> e, v |-> v]         \* one event of the connect sequence

\* no failed coordinator attempt is on record
NoFailure == [max_age |-> 0, waiters |-> {}]

\* pc, op: position and public operation; exc: exception being raised;
\* reqH: handle of the pending transport request; sid: stored_id / device_id
\* of connect(); buf, nfr: combined_data and frames read so far; raw: the
\* bytes read_split_characteristic returned; now, max_age: locals of
\* get_real_time_data; data, chunk, wr: payload, current_chunk and packets
\* written so far of write_split_characteristic; gerr: a GATT read or write
\* of this call has reported a BleakError; res: the call's outcome;
\* uuid: the characteristic of a chunked read; frames: the packets that
\* read has received so far; day, programs: arguments of the calendar
\* operations; wlog: the device writes of this call that were acknowledged,
\* each with its characteristic; args: arguments of write_vacation_time;
\* reads, conc: of a get_real_time_data call, the chunked reads it started
\* and the calls it overlapped with
IdleTask == [pc |-> "idle", op |-> "none", exc |-> "none", reqH |-> None,
             sid |-> None, buf |-> <<>>, nfr |-> 0, raw |-> <<>>, now |-> 0,
             max_age |-> 0, data |-> <<>>, chunk |-> 0, wr |-> <<>>,
             gerr |-> FALSE, uuid |-> "none", frames |-> <<>>,
             day |-> 0, programs |-> <<>>, wlog |-> <<>>, args |-> <<>>,
             reads |-> 0, conc |-> {},
             res |-> NoResult]

\* `self.client and self.client.is_connected`
ClientConnected == client # None /\ client \in linkUp

\* outcomes the transport can report for a request issued on handle h:
\* success needs the link, a BleakError is the link-level error, "other" is
\* any other exception (timeout, decode error of the caller)
Outcomes(h) == IF h \in linkUp THEN {"ok", "bleak", "other"} ELSE {"bleak"}

\* faulty variant: release() leaves the lock held
ReleaseNothing(l) == l

\* asyncio.Lock: acquire() takes a free lock without suspending only when no
\* waiter is queued; release() frees it and the first waiter is resumed
LockFree(l) == l.owner = 0 /\ l.waiters = <<>>
Release(l) == [l EXCEPT !.owner = 0]
Enqueue(l, t) == [l EXCEPT !.waiters = Append(@, t)]
Grant(l, t) == [owner |-> t, waiters |-> Tail(l.waiters)]

Set(t, r) == [task EXCEPT ![t] = r]

\* where an operation continues after `await self.ensure_connection()`
\* (connect() called directly returns to its caller)
AfterEnsure(o) ==
    CASE o \in {"connect", "ensure_connection"} -> "ret"
      [] o \in {"read_split_characteristic", "get_real_time_data"} -> "rs_loop"
      [] o \in {"write_split_characteristic", "write_calendar_day"} -> "ws_loop"
      [] o \in {"read_calendar_day", "read_monitoring_data",
                "read_power_consumption"} -> "rs_loop"
      [] o = "write_force_control" -> "wf_check"
      [] o = "read_force_control" -> "rf_check"
      [] OTHER -> "ret"

\* where control lands when read_split_characteristic returns or raises
AfterReadSplit(o) ==
    CASE o = "get_real_time_data" -> "g_after"
      [] o = "read_calendar_day" -> "rc_after"
      [] o = "read_monitoring_data" -> "rm_after"
      [] o = "read_power_consumption" -> "rp_after"
      [] OTHER -> "ret"

\* where control lands when write_split_characteristic returns or raises
AfterWriteSplit(o) ==
    CASE o = "write_calendar_day" -> "wc_after"
      [] OTHER -> "ret"

\* faulty variant: a failed connect() is attempted again
AfterConnectRaiseRetry(o) == "ensure_connection"

\* where the exception raised by connect() lands: ensure_connection() is
\* awaited outside the try block of the chunked operations, so it leaves
\* them; the force-control operations await it inside their try block
AfterConnectRaise(o) ==
    CASE o \in {"get_real_time_data", "read_calendar_day", "read_monitoring_data",
                "read_power_consumption"} -> AfterReadSplit(o)
      [] o = "write_calendar_day" -> AfterWriteSplit(o)
      [] o \in {"write_force_control", "read_force_control"} -> AfterEnsure(o)
      [] OTHER -> "ret"


\* ------------------------------------------------------------------ bytes
\* int.from_bytes(b, byteorder='little')
RECURSIVE FromBytesLE(_)
FromBytesLE(b) == IF b = <<>> THEN 0 ELSE b[1] + 256 * FromBytesLE(Tail(b))

\* int.from_bytes(b, byteorder='little', signed=True)
FromBytesLESigned(b) ==
    LET u == FromBytesLE(b)
        m == 2 ^ (8 * Len(b))
    IN IF 2 * u >= m THEN u - m ELSE u

\* faulty variant: the lowest bit is tested, whatever the mask
BitSetLowest(byte, mask) == byte % 2 = 1

\* header & mask # 0 for a one-bit mask
BitSet(byte, mask) == (byte \div mask) % 2 = 1

\* v.to_bytes(n, byteorder='little')
ToBytesLE(v, n) == [i \in 1..n |-> (v \div (256 ^ (i - 1))) % 256]

\* faulty variant: the padding is left in place
RstripNothing(b) == b

\* bytes(combined_data).rstrip(b'\x00')
RECURSIVE Rstrip(_)
Rstrip(b) ==
    IF b = <<>> \/ b[Len(b)] # 0 THEN b ELSE Rstrip(SubSeq(b, 1, Len(b) - 1))

\* data[i:j] of Python (0-based, j exclusive)
Slice(b, i, j) == SubSeq(b, i + 1, IF j < Len(b) THEN j ELSE Len(b))

\* const.py
ERROR_CODES_BYTE0 == <<
    <<1, "Sensor fault (short-circuit)">>,
    <<2, "Low limit in combination mode">>,
    <<4, "High limit in combination mode">>,
    <<8, "Invalid vacation configuration">>,
    <<16, "Invalid calendar configuration">>,
    <<32, "Floor sensor missing">>,
    <<64, "Floor sensor broken">>,
    <<128, "Room sensor missing">> >>

ERROR_CODES_BYTE1 == <<
    <<1, "Room sensor broken">>,
    <<2, "Combination mode faulty set values (<8)">>,
    <<4, "Day calendar is not set">> >>

\* faulty variant: the modes are numbered from 0
ActiveModesFromZero(b) ==
    CASE b = 0 -> "Manual" [] b = 1 -> "Calendar" [] b = 2 -> "Vacation"
      [] OTHER -> "Unknown"

ACTIVE_MODES(b) ==
    CASE b = 1 -> "Manual" [] b = 2 -> "Calendar" [] b = 3 -> "Vacation"
      [] OTHER -> "Unknown"

MODE_MAP(b) ==
    CASE b = 1 -> "Floor" [] b = 2 -> "Room" [] b = 3 -> "Combination"
      [] b = 4 -> "Power" [] b = 5 -> "Force Control" [] OTHER -> "Unknown"

\* the messages of the bits set in one alarm byte, in the map's order
RECURSIVE AlarmsOf(_, _)
AlarmsOf(byte, map) ==
    IF map = <<>> THEN <<>>
    ELSE (IF BitSet(byte, map[1][1]) THEN <<map[1][2]>> ELSE <<>>)
         \o AlarmsOf(byte, Tail(map))

EmptyDict == [k |-> "dict", empty |-> TRUE]

\* the shortest payload parse_real_time_indication accepts
MinRealTimeLen == 20

\* parse_real_time_indication; temperatures are kept in tenths of a degree
\* (the code divides the raw integer by 10)
parse_real_time_indication(data) ==
    IF Len(data) < MinRealTimeLen
    THEN EmptyDict
    ELSE [k |-> "dict", empty |-> FALSE,
          target_temperature |-> FromBytesLE(Slice(data, 0, 2)),
          temperature_setting_percent |-> data[3],
          room_temperature |-> FromBytesLESigned(Slice(data, 3, 5)),
          floor_temperature |-> FromBytesLESigned(Slice(data, 5, 7)),
          relay_active |-> data[8] # 0,
          alarm_code |-> FromBytesLE(Slice(data, 8, 10)),
          active_alarms |-> AlarmsOf(data[9], ERROR_CODES_BYTE0)
                            \o AlarmsOf(data[10], ERROR_CODES_BYTE1),
          active_mode |-> ACTIVE_MODES(data[13]),
          heating_mode |-> MODE_MAP(data[14]),
          boost_enabled |-> data[15] # 0,
          boost_setpoint_minutes |-> FromBytesLE(Slice(data, 15, 17)),
          boost_remaining_minutes |-> FromBytesLE(Slice(data, 17, 19)),
          potentiometer_value |-> data[20]]

\* Python truth value of a returned value: None and {} are false
Truthy(v) == v.k = "dict" /\ ~v.empty

\* ----------------------------------------------------------------- device
\* live-status records the device holds: one that ends in a non-zero byte
\* (potentiometer 50) and one that ends in zero bytes (boost off,
\* potentiometer 0)
RecordA == <<200, 0, 50, 200, 0, 0, 0, 1, 0, 0, 0, 0, 2, 2, 0, 0, 0, 0, 0, 50>>
RecordZ == <<200, 0, 50, 210, 0, 0, 0, 1, 0, 0, 0, 0, 2, 2, 0, 0, 0, 0, 0, 0>>

FinalFlag == 64        \* 0x40

\* what the device answers on FACTORY_RESET_ID_UUID: the id and its address
\* while in pairing mode, an id of 0 otherwise
PairingData == <<7, 1, 0, 0, 170, 187, 204, 221, 238, 255>>
NotPairingData == <<0, 0, 0, 0, 170, 187, 204, 221, 238, 255>>

\* the same device after a factory reset: it answers with a new id
ResetPairingData == <<8, 2, 0, 0, 170, 187, 204, 221, 238, 255>>

\* faulty variant: the id is taken from the address bytes
FactoryResetIdOfAddress(data) == FromBytesLE(Slice(data, 4, 6))

\* read_factory_reset_id: int.from_bytes(data[:4], byteorder="little")
FactoryResetIdOf(data) == FromBytesLE(Slice(data, 0, 4))

\* faulty variant: the id is packed big-endian
IdBytesBigEndian(factory_reset_id) ==
    [i \in 1..4 |-> ToBytesLE(factory_reset_id, 4)[5 - i]]

\* write_factory_reset_id: id_bytes = factory_reset_id.to_bytes(4, "little")
IdBytes(factory_reset_id) == ToBytesLE(factory_reset_id, 4)

\* the id the device receives in an authentication write
ReceivedId(id_bytes) == FromBytesLE(id_bytes)

Frame(header, payload) == <<header>> \o payload

\* what the device may answer to the next read of a chunked characteristic
\* after n frames: a first half without the final flag (while the frame
\* bound allows another frame), a last frame with it, or an empty packet
DevicePackets(n) ==
    {<<>>, Frame(FinalFlag, Slice(RecordA, 10, 20)), Frame(FinalFlag, Slice(RecordZ, 10, 20))}
    \cup (IF n + 1 < MaxFrames THEN {Frame(0, Slice(RecordA, 0, 10))} ELSE {})

\* frames the device may answer to a chunked read of another
\* characteristic: payloads with and without trailing zeros, a
\* header carrying other bits besides the final flag, a header-only frame
ExamplePackets(n) ==
    {<<>>, <<64, 67, 68, 0, 0>>, <<64>>, <<192, 0, 7>>}
    \cup (IF n + 1 < MaxFrames THEN {<<0, 65, 66>>, <<128, 0, 65>>} ELSE {})

\* payloads handed to write_split_characteristic
Payloads == {<<>>, <<9>>, <<1, 2, 3>>, <<1, 2, 3, 4, 5, 6, 7, 8>>}

\* max_age_seconds: the default of get_real_time_data and a short window
DefaultMaxAge == 25
ShortMaxAge == 1
MaxAges == {ShortMaxAge, DefaultMaxAge}

\* amounts by which the clock advances
TickSteps == {1, DefaultMaxAge - 1}

\* ---------------------------------------------------------- day calendar
\* v.to_bytes(n, byteorder='little', signed=True)
ToBytesLESigned(v, n) == ToBytesLE(IF v < 0 THEN v + 2 ^ (8 * n) ELSE v, n)

\* to_bytes(n, signed=True) raises OverflowError outside the n-byte range
FitsSigned(v, n) == -(2 ^ (8 * n - 1)) <= v /\ v < 2 ^ (8 * n - 1)

\* temperature offsets are written here in hundredths of a degree: c stands
\* for the float nearest to c / 100.  For these c that float times 100 lies
\* just below the integer c (0.29 * 100 = 28.999999999999996); the table is
\* complete for every value whose hundredths fit an unsigned 16-bit field
\* (beyond it to_bytes raises whatever the truncation)
TruncatedHundredths ==
    {29, 57, 58, 113, 114, 115, 116, 201, 203, 205, 207, 226, 228, 230, 232,
     251, 253, 255, 402, 406, 410, 414, 427, 431, 435, 439, 452, 456, 460,
     464, 477, 481, 485, 489, 502, 506, 510, 803, 804, 812, 820, 828, 829,
     837, 845, 853, 854, 862, 870, 878, 879, 887, 895, 903, 904, 912, 920,
     928, 929, 937, 945, 953, 954, 962, 970, 978, 979, 987, 995, 1003, 1004,
     1012, 1020, 1606, 1608, 1615, 1624, 1631, 1633, 1640, 1649, 1656, 1658,
     1665, 1674, 1681, 1683, 1690, 1699, 1706, 1708, 1715, 1724, 1731, 1733,
     1740, 1749, 1756, 1758, 1765, 1774, 1781, 1783, 1790, 1799, 1806, 1808,
     1815, 1824, 1831, 1833, 1840, 1849, 1856, 1858, 1865, 1874, 1881, 1883,
     1890, 1899, 1906, 1908, 1915, 1924, 1931, 1933, 1940, 1949, 1956, 1958,
     1965, 1974, 1981, 1983, 1990, 1999, 2006, 2008, 2015, 2024, 2031, 2033,
     2040, 3205, 3212, 3216, 3223, 3230, 3237, 3241, 3248, 3255, 3262, 3266,
     3273, 3280, 3287, 3291, 3298, 3305, 3312, 3316, 3323, 3330, 3337, 3341,
     3348, 3355, 3362, 3366, 3373, 3380, 3387, 3391, 3398, 3405, 3412, 3416,
     3423, 3430, 3437, 3441, 3448, 3455, 3462, 3466, 3473, 3480, 3487, 3491,
     3498, 3505, 3512, 3516, 3523, 3530, 3537, 3541, 3548, 3555, 3562, 3566,
     3573, 3580, 3587, 3591, 3598, 3605, 3612, 3616, 3623, 3630, 3637, 3641,
     3648, 3655, 3662, 3666, 3673, 3680, 3687, 3691, 3698, 3705, 3712, 3716,
     3723, 3730, 3737, 3741, 3748, 3755, 3762, 3766, 3773, 3780, 3787, 3791,
     3798, 3805, 3812, 3816, 3823, 3830, 3837, 3841, 3848, 3855, 3862, 3866,
     3873, 3880, 3887, 3891, 3898, 3905, 3912, 3916, 3923, 3930, 3937, 3941,
     3948, 3955, 3962, 3966, 3973, 3980, 3987, 3991, 3998, 4005, 4012, 4016,
     4023, 4030, 4037, 4041, 4048, 4055, 4062, 4066, 4073, 4080, 4087, 4091,
     6407, 6410, 6421, 6424, 6432, 6435, 6446, 6449, 6457, 6460, 6471, 6474,
     6482, 6485, 6496, 6499, 6507, 6510, 6521, 6524, 6532, 6535, 6546, 6549,
     6557, 6560, 6571, 6574, 6582, 6585, 6596, 6599, 6607, 6610, 6621, 6624,
     6632, 6635, 6646, 6649, 6657, 6660, 6671, 6674, 6682, 6685, 6696, 6699,
     6707, 6710, 6721, 6724, 6732, 6735, 6746, 6749, 6757, 6760, 6771, 6774,
     6782, 6785, 6796, 6799, 6807, 6810, 6821, 6824, 6832, 6835, 6846, 6849,
     6857, 6860, 6871, 6874, 6882, 6885, 6896, 6899, 6907, 6910, 6921, 6924,
     6932, 6935, 6946, 6949, 6957, 6960, 6971, 6974, 6982, 6985, 6996, 6999,
     7007, 7010, 7021, 7024, 7032, 7035, 7046, 7049, 7057, 7060, 7071, 7074,
     7082, 7085, 7096, 7099, 7107, 7110, 7121, 7124, 7132, 7135, 7146, 7149,
     7157, 7160, 7171, 7174, 7182, 7185, 7196, 7199, 7207, 7210, 7221, 7224,
     7232, 7235, 7246, 7249, 7257, 7260, 7271, 7274, 7282, 7285, 7296, 7299,
     7307, 7310, 7321, 7324, 7332, 7335, 7346, 7349, 7357, 7360, 7371, 7374,
     7382, 7385, 7396, 7399, 7407, 7410, 7421, 7424, 7432, 7435, 7446, 7449,
     7457, 7460, 7471, 7474, 7482, 7485, 7496, 7499, 7507, 7510, 7521, 7524,
     7532, 7535, 7546, 7549, 7557, 7560, 7571, 7574, 7582, 7585, 7596, 7599,
     7607, 7610, 7621, 7624, 7632, 7635, 7646, 7649, 7657, 7660, 7671, 7674,
     7682, 7685, 7696, 7699, 7707, 7710, 7721, 7724, 7732, 7735, 7746, 7749,
     7757, 7760, 7771, 7774, 7782, 7785, 7796, 7799, 7807, 7810, 7821, 7824,
     7832, 7835, 7846, 7849, 7857, 7860, 7871, 7874, 7882, 7885, 7896, 7899,
     7907, 7910, 7921, 7924, 7932, 7935, 7946, 7949, 7957, 7960, 7971, 7974,
     7982, 7985, 7996, 7999, 8007, 8010, 8021, 8024, 8032, 8035, 8046, 8049,
     8057, 8060, 8071, 8074, 8082, 8085, 8096, 8099, 8107, 8110, 8121, 8124,
     8132, 8135, 8146, 8149, 8157, 8160, 8171, 8174, 8182, 8185, 12814, 12817,
     12820, 12823, 12839, 12842, 12845, 12848, 12864, 12867, 12870, 12873,
     12889, 12892, 12895, 12898, 12914, 12917, 12920, 12923, 12939, 12942,
     12945, 12948, 12964, 12967, 12970, 12973, 12989, 12992, 12995, 12998,
     13014, 13017, 13020, 13023, 13039, 13042, 13045, 13048, 13064, 13067,
     13070, 13073, 13089, 13092, 13095, 13098, 13114, 13117, 13120, 13123,
     13139, 13142, 13145, 13148, 13164, 13167, 13170, 13173, 13189, 13192,
     13195, 13198, 13214, 13217, 13220, 13223, 13239, 13242, 13245, 13248,
     13264, 13267, 13270, 13273, 13289, 13292, 13295, 13298, 13314, 13317,
     13320, 13323, 13339, 13342, 13345, 13348, 13364, 13367, 13370, 13373,
     13389, 13392, 13395, 13398, 13414, 13417, 13420, 13423, 13439, 13442,
     13445, 13448, 13464, 13467, 13470, 13473, 13489, 13492, 13495, 13498,
     13514, 13517, 13520, 13523, 13539, 13542, 13545, 13548, 13564, 13567,
     13570, 13573, 13589, 13592, 13595, 13598, 13614, 13617, 13620, 13623,
     13639, 13642, 13645, 13648, 13664, 13667, 13670, 13673, 13689, 13692,
     13695, 13698, 13714, 13717, 13720, 13723, 13739, 13742, 13745, 13748,
     13764, 13767, 13770, 13773, 13789, 13792, 13795, 13798, 13814, 13817,
     13820, 13823, 13839, 13842, 13845, 13848, 13864, 13867, 13870, 13873,
     13889, 13892, 13895, 13898, 13914, 13917, 13920, 13923, 13939, 13942,
     13945, 13948, 13964, 13967, 13970, 13973, 13989, 13992, 13995, 13998,
     14014, 14017, 14020, 14023, 14039, 14042, 14045, 14048, 14064, 14067,
     14070, 14073, 14089, 14092, 14095, 14098, 14114, 14117, 14120, 14123,
     14139, 14142, 14145, 14148, 14164, 14167, 14170, 14173, 14189, 14192,
     14195, 14198, 14214, 14217, 14220, 14223, 14239, 14242, 14245, 14248,
     14264, 14267, 14270, 14273, 14289, 14292, 14295, 14298, 14314, 14317,
     14320, 14323, 14339, 14342, 14345, 14348, 14364, 14367, 14370, 14373,
     14389, 14392, 14395, 14398, 14414, 14417, 14420, 14423, 14439, 14442,
     14445, 14448, 14464, 14467, 14470, 14473, 14489, 14492, 14495, 14498,
     14514, 14517, 14520, 14523, 14539, 14542, 14545, 14548, 14564, 14567,
     14570, 14573, 14589, 14592, 14595, 14598, 14614, 14617, 14620, 14623,
     14639, 14642, 14645, 14648, 14664, 14667, 14670, 14673, 14689, 14692,
     14695, 14698, 14714, 14717, 14720, 14723, 14739, 14742, 14745, 14748,
     14764, 14767, 14770, 14773, 14789, 14792, 14795, 14798, 14814, 14817,
     14820, 14823, 14839, 14842, 14845, 14848, 14864, 14867, 14870, 14873,
     14889, 14892, 14895, 14898, 14914, 14917, 14920, 14923, 14939, 14942,
     14945, 14948, 14964, 14967, 14970, 14973, 14989, 14992, 14995, 14998,
     15014, 15017, 15020, 15023, 15039, 15042, 15045, 15048, 15064, 15067,
     15070, 15073, 15089, 15092, 15095, 15098, 15114, 15117, 15120, 15123,
     15139, 15142, 15145, 15148, 15164, 15167, 15170, 15173, 15189, 15192,
     15195, 15198, 15214, 15217, 15220, 15223, 15239, 15242, 15245, 15248,
     15264, 15267, 15270, 15273, 15289, 15292, 15295, 15298, 15314, 15317,
     15320, 15323, 15339, 15342, 15345, 15348, 15364, 15367, 15370, 15373,
     15389, 15392, 15395, 15398, 15414, 15417, 15420, 15423, 15439, 15442,
     15445, 15448, 15464, 15467, 15470, 15473, 15489, 15492, 15495, 15498,
     15514, 15517, 15520, 15523, 15539, 15542, 15545, 15548, 15564, 15567,
     15570, 15573, 15589, 15592, 15595, 15598, 15614, 15617, 15620, 15623,
     15639, 15642, 15645, 15648, 15664, 15667, 15670, 15673, 15689, 15692,
     15695, 15698, 15714, 15717, 15720, 15723, 15739, 15742, 15745, 15748,
     15764, 15767, 15770, 15773, 15789, 15792, 15795, 15798, 15814, 15817,
     15820, 15823, 15839, 15842, 15845, 15848, 15864, 15867, 15870, 15873,
     15889, 15892, 15895, 15898, 15914, 15917, 15920, 15923, 15939, 15942,
     15945, 15948, 15964, 15967, 15970, 15973, 15989, 15992, 15995, 15998,
     16014, 16017, 16020, 16023, 16039, 16042, 16045, 16048, 16064, 16067,
     16070, 16073, 16089, 16092, 16095, 16098, 16114, 16117, 16120, 16123,
     16139, 16142, 16145, 16148, 16164, 16167, 16170, 16173, 16189, 16192,
     16195, 16198, 16214, 16217, 16220, 16223, 16239, 16242, 16245, 16248,
     16264, 16267, 16270, 16273, 16289, 16292, 16295, 16298, 16314, 16317,
     16320, 16323, 16339, 16342, 16345, 16348, 16364, 16367, 16370, 16373,
     25603, 25609, 25615, 25621, 25628, 25634, 25640, 25646, 25653, 25659,
     25665, 25671, 25678, 25684, 25690, 25696, 25703, 25709, 25715, 25721,
     25728, 25734, 25740, 25746, 25753, 25759, 25765, 25771, 25778, 25784,
     25790, 25796, 25803, 25809, 25815, 25821, 25828, 25834, 25840, 25846,
     25853, 25859, 25865, 25871, 25878, 25884, 25890, 25896, 25903, 25909,
     25915, 25921, 25928, 25934, 25940, 25946, 25953, 25959, 25965, 25971,
     25978, 25984, 25990, 25996, 26003, 26009, 26015, 26021, 26028, 26034,
     26040, 26046, 26053, 26059, 26065, 26071, 26078, 26084, 26090, 26096,
     26103, 26109, 26115, 26121, 26128, 26134, 26140, 26146, 26153, 26159,
     26165, 26171, 26178, 26184, 26190, 26196, 26203, 26209, 26215, 26221,
     26228, 26234, 26240, 26246, 26253, 26259, 26265, 26271, 26278, 26284,
     26290, 26296, 26303, 26309, 26315, 26321, 26328, 26334, 26340, 26346,
     26353, 26359, 26365, 26371, 26378, 26384, 26390, 26396, 26403, 26409,
     26415, 26421, 26428, 26434, 26440, 26446, 26453, 26459, 26465, 26471,
     26478, 26484, 26490, 26496, 26503, 26509, 26515, 26521, 26528, 26534,
     26540, 26546, 26553, 26559, 26565, 26571, 26578, 26584, 26590, 26596,
     26603, 26609, 26615, 26621, 26628, 26634, 26640, 26646, 26653, 26659,
     26665, 26671, 26678, 26684, 26690, 26696, 26703, 26709, 26715, 26721,
     26728, 26734, 26740, 26746, 26753, 26759, 26765, 26771, 26778, 26784,
     26790, 26796, 26803, 26809, 26815, 26821, 26828, 26834, 26840, 26846,
     26853, 26859, 26865, 26871, 26878, 26884, 26890, 26896, 26903, 26909,
     26915, 26921, 26928, 26934, 26940, 26946, 26953, 26959, 26965, 26971,
     26978, 26984, 26990, 26996, 27003, 27009, 27015, 27021, 27028, 27034,
     27040, 27046, 27053, 27059, 27065, 27071, 27078, 27084, 27090, 27096,
     27103, 27109, 27115, 27121, 27128, 27134, 27140, 27146, 27153, 27159,
     27165, 27171, 27178, 27184, 27190, 27196, 27203, 27209, 27215, 27221,
     27228, 27234, 27240, 27246, 27253, 27259, 27265, 27271, 27278, 27284,
     27290, 27296, 27303, 27309, 27315, 27321, 27328, 27334, 27340, 27346,
     27353, 27359, 27365, 27371, 27378, 27384, 27390, 27396, 27403, 27409,
     27415, 27421, 27428, 27434, 27440, 27446, 27453, 27459, 27465, 27471,
     27478, 27484, 27490, 27496, 27503, 27509, 27515, 27521, 27528, 27534,
     27540, 27546, 27553, 27559, 27565, 27571, 27578, 27584, 27590, 27596,
     27603, 27609, 27615, 27621, 27628, 27634, 27640, 27646, 27653, 27659,
     27665, 27671, 27678, 27684, 27690, 27696, 27703, 27709, 27715, 27721,
     27728, 27734, 27740, 27746, 27753, 27759, 27765, 27771, 27778, 27784,
     27790, 27796, 27803, 27809, 27815, 27821, 27828, 27834, 27840, 27846,
     27853, 27859, 27865, 27871, 27878, 27884, 27890, 27896, 27903, 27909,
     27915, 27921, 27928, 27934, 27940, 27946, 27953, 27959, 27965, 27971,
     27978, 27984, 27990, 27996, 28003, 28009, 28015, 28021, 28028, 28034,
     28040, 28046, 28053, 28059, 28065, 28071, 28078, 28084, 28090, 28096,
     28103, 28109, 28115, 28121, 28128, 28134, 28140, 28146, 28153, 28159,
     28165, 28171, 28178, 28184, 28190, 28196, 28203, 28209, 28215, 28221,
     28228, 28234, 28240, 28246, 28253, 28259, 28265, 28271, 28278, 28284,
     28290, 28296, 28303, 28309, 28315, 28321, 28328, 28334, 28340, 28346,
     28353, 28359, 28365, 28371, 28378, 28384, 28390, 28396, 28403, 28409,
     28415, 28421, 28428, 28434, 28440, 28446, 28453, 28459, 28465, 28471,
     28478, 28484, 28490, 28496, 28503, 28509, 28515, 28521, 28528, 28534,
     28540, 28546, 28553, 28559, 28565, 28571, 28578, 28584, 28590, 28596,
     28603, 28609, 28615, 28621, 28628, 28634, 28640, 28646, 28653, 28659,
     28665, 28671, 28678, 28684, 28690, 28696, 28703, 28709, 28715, 28721,
     28728, 28734, 28740, 28746, 28753, 28759, 28765, 28771, 28778, 28784,
     28790, 28796, 28803, 28809, 28815, 28821, 28828, 28834, 28840, 28846,
     28853, 28859, 28865, 28871, 28878, 28884, 28890, 28896, 28903, 28909,
     28915, 28921, 28928, 28934, 28940, 28946, 28953, 28959, 28965, 28971,
     28978, 28984, 28990, 28996, 29003, 29009, 29015, 29021, 29028, 29034,
     29040, 29046, 29053, 29059, 29065, 29071, 29078, 29084, 29090, 29096,
     29103, 29109, 29115, 29121, 29128, 29134, 29140, 29146, 29153, 29159,
     29165, 29171, 29178, 29184, 29190, 29196, 29203, 29209, 29215, 29221,
     29228, 29234, 29240, 29246, 29253, 29259, 29265, 29271, 29278, 29284,
     29290, 29296, 29303, 29309, 29315, 29321, 29328, 29334, 29340, 29346,
     29353, 29359, 29365, 29371, 29378, 29384, 29390, 29396, 29403, 29409,
     29415, 29421, 29428, 29434, 29440, 29446, 29453, 29459, 29465, 29471,
     29478, 29484, 29490, 29496, 29503, 29509, 29515, 29521, 29528, 29534,
     29540, 29546, 29553, 29559, 29565, 29571, 29578, 29584, 29590, 29596,
     29603, 29609, 29615, 29621, 29628, 29634, 29640, 29646, 29653, 29659,
     29665, 29671, 29678, 29684, 29690, 29696, 29703, 29709, 29715, 29721,
     29728, 29734, 29740, 29746, 29753, 29759, 29765, 29771, 29778, 29784,
     29790, 29796, 29803, 29809, 29815, 29821, 29828, 29834, 29840, 29846,
     29853, 29859, 29865, 29871, 29878, 29884, 29890, 29896, 29903, 29909,
     29915, 29921, 29928, 29934, 29940, 29946, 29953, 29959, 29965, 29971,
     29978, 29984, 29990, 29996, 30003, 30009, 30015, 30021, 30028, 30034,
     30040, 30046, 30053, 30059, 30065, 30071, 30078, 30084, 30090, 30096,
     30103, 30109, 30115, 30121, 30128, 30134, 30140, 30146, 30153, 30159,
     30165, 30171, 30178, 30184, 30190, 30196, 30203, 30209, 30215, 30221,
     30228, 30234, 30240, 30246, 30253, 30259, 30265, 30271, 30278, 30284,
     30290, 30296, 30303, 30309, 30315, 30321, 30328, 30334, 30340, 30346,
     30353, 30359, 30365, 30371, 30378, 30384, 30390, 30396, 30403, 30409,
     30415, 30421, 30428, 30434, 30440, 30446, 30453, 30459, 30465, 30471,
     30478, 30484, 30490, 30496, 30503, 30509, 30515, 30521, 30528, 30534,
     30540, 30546, 30553, 30559, 30565, 30571, 30578, 30584, 30590, 30596,
     30603, 30609, 30615, 30621, 30628, 30634, 30640, 30646, 30653, 30659,
     30665, 30671, 30678, 30684, 30690, 30696, 30703, 30709, 30715, 30721,
     30728, 30734, 30740, 30746, 30753, 30759, 30765, 30771, 30778, 30784,
     30790, 30796, 30803, 30809, 30815, 30821, 30828, 30834, 30840, 30846,
     30853, 30859, 30865, 30871, 30878, 30884, 30890, 30896, 30903, 30909,
     30915, 30921, 30928, 30934, 30940, 30946, 30953, 30959, 30965, 30971,
     30978, 30984, 30990, 30996, 31003, 31009, 31015, 31021, 31028, 31034,
     31040, 31046, 31053, 31059, 31065, 31071, 31078, 31084, 31090, 31096,
     31103, 31109, 31115, 31121, 31128, 31134, 31140, 31146, 31153, 31159,
     31165, 31171, 31178, 31184, 31190, 31196, 31203, 31209, 31215, 31221,
     31228, 31234, 31240, 31246, 31253, 31259, 31265, 31271, 31278, 31284,
     31290, 31296, 31303, 31309, 31315, 31321, 31328, 31334, 31340, 31346,
     31353, 31359, 31365, 31371, 31378, 31384, 31390, 31396, 31403, 31409,
     31415, 31421, 31428, 31434, 31440, 31446, 31453, 31459, 31465, 31471,
     31478, 31484, 31490, 31496, 31503, 31509, 31515, 31521, 31528, 31534,
     31540, 31546, 31553, 31559, 31565, 31571, 31578, 31584, 31590, 31596,
     31603, 31609, 31615, 31621, 31628, 31634, 31640, 31646, 31653, 31659,
     31665, 31671, 31678, 31684, 31690, 31696, 31703, 31709, 31715, 31721,
     31728, 31734, 31740, 31746, 31753, 31759, 31765, 31771, 31778, 31784,
     31790, 31796, 31803, 31809, 31815, 31821, 31828, 31834, 31840, 31846,
     31853, 31859, 31865, 31871, 31878, 31884, 31890, 31896, 31903, 31909,
     31915, 31921, 31928, 31934, 31940, 31946, 31953, 31959, 31965, 31971,
     31978, 31984, 31990, 31996, 32003, 32009, 32015, 32021, 32028, 32034,
     32040, 32046, 32053, 32059, 32065, 32071, 32078, 32084, 32090, 32096,
     32103, 32109, 32115, 32121, 32128, 32134, 32140, 32146, 32153, 32159,
     32165, 32171, 32178, 32184, 32190, 32196, 32203, 32209, 32215, 32221,
     32228, 32234, 32240, 32246, 32253, 32259, 32265, 32271, 32278, 32284,
     32290, 32296, 32303, 32309, 32315, 32321, 32328, 32334, 32340, 32346,
     32353, 32359, 32365, 32371, 32378, 32384, 32390, 32396, 32403, 32409,
     32415, 32421, 32428, 32434, 32440, 32446, 32453, 32459, 32465, 32471,
     32478, 32484, 32490, 32496, 32503, 32509, 32515, 32521, 32528, 32534,
     32540, 32546, 32553, 32559, 32565, 32571, 32578, 32584, 32590, 32596,
     32603, 32609, 32615, 32621, 32628, 32634, 32640, 32646, 32653, 32659,
     32665, 32671, 32678, 32684, 32690, 32696, 32703, 32709, 32715, 32721,
     32728, 32734, 32740, 32746, 32753, 32759, 32765, 51205, 51206, 51217,
     51218, 51230, 51231, 51242, 51243, 51255, 51256, 51267, 51268, 51280,
     51281, 51292, 51293, 51305, 51306, 51317, 51318, 51330, 51331, 51342,
     51343, 51355, 51356, 51367, 51368, 51380, 51381, 51392, 51393, 51405,
     51406, 51417, 51418, 51430, 51431, 51442, 51443, 51455, 51456, 51467,
     51468, 51480, 51481, 51492, 51493, 51505, 51506, 51517, 51518, 51530,
     51531, 51542, 51543, 51555, 51556, 51567, 51568, 51580, 51581, 51592,
     51593, 51605, 51606, 51617, 51618, 51630, 51631, 51642, 51643, 51655,
     51656, 51667, 51668, 51680, 51681, 51692, 51693, 51705, 51706, 51717,
     51718, 51730, 51731, 51742, 51743, 51755, 51756, 51767, 51768, 51780,
     51781, 51792, 51793, 51805, 51806, 51817, 51818, 51830, 51831, 51842,
     51843, 51855, 51856, 51867, 51868, 51880, 51881, 51892, 51893, 51905,
     51906, 51917, 51918, 51930, 51931, 51942, 51943, 51955, 51956, 51967,
     51968, 51980, 51981, 51992, 51993, 52005, 52006, 52017, 52018, 52030,
     52031, 52042, 52043, 52055, 52056, 52067, 52068, 52080, 52081, 52092,
     52093, 52105, 52106, 52117, 52118, 52130, 52131, 52142, 52143, 52155,
     52156, 52167, 52168, 52180, 52181, 52192, 52193, 52205, 52206, 52217,
     52218, 52230, 52231, 52242, 52243, 52255, 52256, 52267, 52268, 52280,
     52281, 52292, 52293, 52305, 52306, 52317, 52318, 52330, 52331, 52342,
     52343, 52355, 52356, 52367, 52368, 52380, 52381, 52392, 52393, 52405,
     52406, 52417, 52418, 52430, 52431, 52442, 52443, 52455, 52456, 52467,
     52468, 52480, 52481, 52492, 52493, 52505, 52506, 52517, 52518, 52530,
     52531, 52542, 52543, 52555, 52556, 52567, 52568, 52580, 52581, 52592,
     52593, 52605, 52606, 52617, 52618, 52630, 52631, 52642, 52643, 52655,
     52656, 52667, 52668, 52680, 52681, 52692, 52693, 52705, 52706, 52717,
     52718, 52730, 52731, 52742, 52743, 52755, 52756, 52767, 52768, 52780,
     52781, 52792, 52793, 52805, 52806, 52817, 52818, 52830, 52831, 52842,
     52843, 52855, 52856, 52867, 52868, 52880, 52881, 52892, 52893, 52905,
     52906, 52917, 52918, 52930, 52931, 52942, 52943, 52955, 52956, 52967,
     52968, 52980, 52981, 52992, 52993, 53005, 53006, 53017, 53018, 53030,
     53031, 53042, 53043, 53055, 53056, 53067, 53068, 53080, 53081, 53092,
     53093, 53105, 53106, 53117, 53118, 53130, 53131, 53142, 53143, 53155,
     53156, 53167, 53168, 53180, 53181, 53192, 53193, 53205, 53206, 53217,
     53218, 53230, 53231, 53242, 53243, 53255, 53256, 53267, 53268, 53280,
     53281, 53292, 53293, 53305, 53306, 53317, 53318, 53330, 53331, 53342,
     53343, 53355, 53356, 53367, 53368, 53380, 53381, 53392, 53393, 53405,
     53406, 53417, 53418, 53430, 53431, 53442, 53443, 53455, 53456, 53467,
     53468, 53480, 53481, 53492, 53493, 53505, 53506, 53517, 53518, 53530,
     53531, 53542, 53543, 53555, 53556, 53567, 53568, 53580, 53581, 53592,
     53593, 53605, 53606, 53617, 53618, 53630, 53631, 53642, 53643, 53655,
     53656, 53667, 53668, 53680, 53681, 53692, 53693, 53705, 53706, 53717,
     53718, 53730, 53731, 53742, 53743, 53755, 53756, 53767, 53768, 53780,
     53781, 53792, 53793, 53805, 53806, 53817, 53818, 53830, 53831, 53842,
     53843, 53855, 53856, 53867, 53868, 53880, 53881, 53892, 53893, 53905,
     53906, 53917, 53918, 53930, 53931, 53942, 53943, 53955, 53956, 53967,
     53968, 53980, 53981, 53992, 53993, 54005, 54006, 54017, 54018, 54030,
     54031, 54042, 54043, 54055, 54056, 54067, 54068, 54080, 54081, 54092,
     54093, 54105, 54106, 54117, 54118, 54130, 54131, 54142, 54143, 54155,
     54156, 54167, 54168, 54180, 54181, 54192, 54193, 54205, 54206, 54217,
     54218, 54230, 54231, 54242, 54243, 54255, 54256, 54267, 54268, 54280,
     54281, 54292, 54293, 54305, 54306, 54317, 54318, 54330, 54331, 54342,
     54343, 54355, 54356, 54367, 54368, 54380, 54381, 54392, 54393, 54405,
     54406, 54417, 54418, 54430, 54431, 54442, 54443, 54455, 54456, 54467,
     54468, 54480, 54481, 54492, 54493, 54505, 54506, 54517, 54518, 54530,
     54531, 54542, 54543, 54555, 54556, 54567, 54568, 54580, 54581, 54592,
     54593, 54605, 54606, 54617, 54618, 54630, 54631, 54642, 54643, 54655,
     54656, 54667, 54668, 54680, 54681, 54692, 54693, 54705, 54706, 54717,
     54718, 54730, 54731, 54742, 54743, 54755, 54756, 54767, 54768, 54780,
     54781, 54792, 54793, 54805, 54806, 54817, 54818, 54830, 54831, 54842,
     54843, 54855, 54856, 54867, 54868, 54880, 54881, 54892, 54893, 54905,
     54906, 54917, 54918, 54930, 54931, 54942, 54943, 54955, 54956, 54967,
     54968, 54980, 54981, 54992, 54993, 55005, 55006, 55017, 55018, 55030,
     55031, 55042, 55043, 55055, 55056, 55067, 55068, 55080, 55081, 55092,
     55093, 55105, 55106, 55117, 55118, 55130, 55131, 55142, 55143, 55155,
     55156, 55167, 55168, 55180, 55181, 55192, 55193, 55205, 55206, 55217,
     55218, 55230, 55231, 55242, 55243, 55255, 55256, 55267, 55268, 55280,
     55281, 55292, 55293, 55305, 55306, 55317, 55318, 55330, 55331, 55342,
     55343, 55355, 55356, 55367, 55368, 55380, 55381, 55392, 55393, 55405,
     55406, 55417, 55418, 55430, 55431, 55442, 55443, 55455, 55456, 55467,
     55468, 55480, 55481, 55492, 55493, 55505, 55506, 55517, 55518, 55530,
     55531, 55542, 55543, 55555, 55556, 55567, 55568, 55580, 55581, 55592,
     55593, 55605, 55606, 55617, 55618, 55630, 55631, 55642, 55643, 55655,
     55656, 55667, 55668, 55680, 55681, 55692, 55693, 55705, 55706, 55717,
     55718, 55730, 55731, 55742, 55743, 55755, 55756, 55767, 55768, 55780,
     55781, 55792, 55793, 55805, 55806, 55817, 55818, 55830, 55831, 55842,
     55843, 55855, 55856, 55867, 55868, 55880, 55881, 55892, 55893, 55905,
     55906, 55917, 55918, 55930, 55931, 55942, 55943, 55955, 55956, 55967,
     55968, 55980, 55981, 55992, 55993, 56005, 56006, 56017, 56018, 56030,
     56031, 56042, 56043, 56055, 56056, 56067, 56068, 56080, 56081, 56092,
     56093, 56105, 56106, 56117, 56118, 56130, 56131, 56142, 56143, 56155,
     56156, 56167, 56168, 56180, 56181, 56192, 56193, 56205, 56206, 56217,
     56218, 56230, 56231, 56242, 56243, 56255, 56256, 56267, 56268, 56280,
     56281, 56292, 56293, 56305, 56306, 56317, 56318, 56330, 56331, 56342,
     56343, 56355, 56356, 56367, 56368, 56380, 56381, 56392, 56393, 56405,
     56406, 56417, 56418, 56430, 56431, 56442, 56443, 56455, 56456, 56467,
     56468, 56480, 56481, 56492, 56493, 56505, 56506, 56517, 56518, 56530,
     56531, 56542, 56543, 56555, 56556, 56567, 56568, 56580, 56581, 56592,
     56593, 56605, 56606, 56617, 56618, 56630, 56631, 56642, 56643, 56655,
     56656, 56667, 56668, 56680, 56681, 56692, 56693, 56705, 56706, 56717,
     56718, 56730, 56731, 56742, 56743, 56755, 56756, 56767, 56768, 56780,
     56781, 56792, 56793, 56805, 56806, 56817, 56818, 56830, 56831, 56842,
     56843, 56855, 56856, 56867, 56868, 56880, 56881, 56892, 56893, 56905,
     56906, 56917, 56918, 56930, 56931, 56942, 56943, 56955, 56956, 56967,
     56968, 56980, 56981, 56992, 56993, 57005, 57006, 57017, 57018, 57030,
     57031, 57042, 57043, 57055, 57056, 57067, 57068, 57080, 57081, 57092,
     57093, 57105, 57106, 57117, 57118, 57130, 57131, 57142, 57143, 57155,
     57156, 57167, 57168, 57180, 57181, 57192, 57193, 57205, 57206, 57217,
     57218, 57230, 57231, 57242, 57243, 57255, 57256, 57267, 57268, 57280,
     57281, 57292, 57293, 57305, 57306, 57317, 57318, 57330, 57331, 57342,
     57343, 57355, 57356, 57367, 57368, 57380, 57381, 57392, 57393, 57405,
     57406, 57417, 57418, 57430, 57431, 57442, 57443, 57455, 57456, 57467,
     57468, 57480, 57481, 57492, 57493, 57505, 57506, 57517, 57518, 57530,
     57531, 57542, 57543, 57555, 57556, 57567, 57568, 57580, 57581, 57592,
     57593, 57605, 57606, 57617, 57618, 57630, 57631, 57642, 57643, 57655,
     57656, 57667, 57668, 57680, 57681, 57692, 57693, 57705, 57706, 57717,
     57718, 57730, 57731, 57742, 57743, 57755, 57756, 57767, 57768, 57780,
     57781, 57792, 57793, 57805, 57806, 57817, 57818, 57830, 57831, 57842,
     57843, 57855, 57856, 57867, 57868, 57880, 57881, 57892, 57893, 57905,
     57906, 57917, 57918, 57930, 57931, 57942, 57943, 57955, 57956, 57967,
     57968, 57980, 57981, 57992, 57993, 58005, 58006, 58017, 58018, 58030,
     58031, 58042, 58043, 58055, 58056, 58067, 58068, 58080, 58081, 58092,
     58093, 58105, 58106, 58117, 58118, 58130, 58131, 58142, 58143, 58155,
     58156, 58167, 58168, 58180, 58181, 58192, 58193, 58205, 58206, 58217,
     58218, 58230, 58231, 58242, 58243, 58255, 58256, 58267, 58268, 58280,
     58281, 58292, 58293, 58305, 58306, 58317, 58318, 58330, 58331, 58342,
     58343, 58355, 58356, 58367, 58368, 58380, 58381, 58392, 58393, 58405,
     58406, 58417, 58418, 58430, 58431, 58442, 58443, 58455, 58456, 58467,
     58468, 58480, 58481, 58492, 58493, 58505, 58506, 58517, 58518, 58530,
     58531, 58542, 58543, 58555, 58556, 58567, 58568, 58580, 58581, 58592,
     58593, 58605, 58606, 58617, 58618, 58630, 58631, 58642, 58643, 58655,
     58656, 58667, 58668, 58680, 58681, 58692, 58693, 58705, 58706, 58717,
     58718, 58730, 58731, 58742, 58743, 58755, 58756, 58767, 58768, 58780,
     58781, 58792, 58793, 58805, 58806, 58817, 58818, 58830, 58831, 58842,
     58843, 58855, 58856, 58867, 58868, 58880, 58881, 58892, 58893, 58905,
     58906, 58917, 58918, 58930, 58931, 58942, 58943, 58955, 58956, 58967,
     58968, 58980, 58981, 58992, 58993, 59005, 59006, 59017, 59018, 59030,
     59031, 59042, 59043, 59055, 59056, 59067, 59068, 59080, 59081, 59092,
     59093, 59105, 59106, 59117, 59118, 59130, 59131, 59142, 59143, 59155,
     59156, 59167, 59168, 59180, 59181, 59192, 59193, 59205, 59206, 59217,
     59218, 59230, 59231, 59242, 59243, 59255, 59256, 59267, 59268, 59280,
     59281, 59292, 59293, 59305, 59306, 59317, 59318, 59330, 59331, 59342,
     59343, 59355, 59356, 59367, 59368, 59380, 59381, 59392, 59393, 59405,
     59406, 59417, 59418, 59430, 59431, 59442, 59443, 59455, 59456, 59467,
     59468, 59480, 59481, 59492, 59493, 59505, 59506, 59517, 59518, 59530,
     59531, 59542, 59543, 59555, 59556, 59567, 59568, 59580, 59581, 59592,
     59593, 59605, 59606, 59617, 59618, 59630, 59631, 59642, 59643, 59655,
     59656, 59667, 59668, 59680, 59681, 59692, 59693, 59705, 59706, 59717,
     59718, 59730, 59731, 59742, 59743, 59755, 59756, 59767, 59768, 59780,
     59781, 59792, 59793, 59805, 59806, 59817, 59818, 59830, 59831, 59842,
     59843, 59855, 59856, 59867, 59868, 59880, 59881, 59892, 59893, 59905,
     59906, 59917, 59918, 59930, 59931, 59942, 59943, 59955, 59956, 59967,
     59968, 59980, 59981, 59992, 59993, 60005, 60006, 60017, 60018, 60030,
     60031, 60042, 60043, 60055, 60056, 60067, 60068, 60080, 60081, 60092,
     60093, 60105, 60106, 60117, 60118, 60130, 60131, 60142, 60143, 60155,
     60156, 60167, 60168, 60180, 60181, 60192, 60193, 60205, 60206, 60217,
     60218, 60230, 60231, 60242, 60243, 60255, 60256, 60267, 60268, 60280,
     60281, 60292, 60293, 60305, 60306, 60317, 60318, 60330, 60331, 60342,
     60343, 60355, 60356, 60367, 60368, 60380, 60381, 60392, 60393, 60405,
     60406, 60417, 60418, 60430, 60431, 60442, 60443, 60455, 60456, 60467,
     60468, 60480, 60481, 60492, 60493, 60505, 60506, 60517, 60518, 60530,
     60531, 60542, 60543, 60555, 60556, 60567, 60568, 60580, 60581, 60592,
     60593, 60605, 60606, 60617, 60618, 60630, 60631, 60642, 60643, 60655,
     60656, 60667, 60668, 60680, 60681, 60692, 60693, 60705, 60706, 60717,
     60718, 60730, 60731, 60742, 60743, 60755, 60756, 60767, 60768, 60780,
     60781, 60792, 60793, 60805, 60806, 60817, 60818, 60830, 60831, 60842,
     60843, 60855, 60856, 60867, 60868, 60880, 60881, 60892, 60893, 60905,
     60906, 60917, 60918, 60930, 60931, 60942, 60943, 60955, 60956, 60967,
     60968, 60980, 60981, 60992, 60993, 61005, 61006, 61017, 61018, 61030,
     61031, 61042, 61043, 61055, 61056, 61067, 61068, 61080, 61081, 61092,
     61093, 61105, 61106, 61117, 61118, 61130, 61131, 61142, 61143, 61155,
     61156, 61167, 61168, 61180, 61181, 61192, 61193, 61205, 61206, 61217,
     61218, 61230, 61231, 61242, 61243, 61255, 61256, 61267, 61268, 61280,
     61281, 61292, 61293, 61305, 61306, 61317, 61318, 61330, 61331, 61342,
     61343, 61355, 61356, 61367, 61368, 61380, 61381, 61392, 61393, 61405,
     61406, 61417, 61418, 61430, 61431, 61442, 61443, 61455, 61456, 61467,
     61468, 61480, 61481, 61492, 61493, 61505, 61506, 61517, 61518, 61530,
     61531, 61542, 61543, 61555, 61556, 61567, 61568, 61580, 61581, 61592,
     61593, 61605, 61606, 61617, 61618, 61630, 61631, 61642, 61643, 61655,
     61656, 61667, 61668, 61680, 61681, 61692, 61693, 61705, 61706, 61717,
     61718, 61730, 61731, 61742, 61743, 61755, 61756, 61767, 61768, 61780,
     61781, 61792, 61793, 61805, 61806, 61817, 61818, 61830, 61831, 61842,
     61843, 61855, 61856, 61867, 61868, 61880, 61881, 61892, 61893, 61905,
     61906, 61917, 61918, 61930, 61931, 61942, 61943, 61955, 61956, 61967,
     61968, 61980, 61981, 61992, 61993, 62005, 62006, 62017, 62018, 62030,
     62031, 62042, 62043, 62055, 62056, 62067, 62068, 62080, 62081, 62092,
     62093, 62105, 62106, 62117, 62118, 62130, 62131, 62142, 62143, 62155,
     62156, 62167, 62168, 62180, 62181, 62192, 62193, 62205, 62206, 62217,
     62218, 62230, 62231, 62242, 62243, 62255, 62256, 62267, 62268, 62280,
     62281, 62292, 62293, 62305, 62306, 62317, 62318, 62330, 62331, 62342,
     62343, 62355, 62356, 62367, 62368, 62380, 62381, 62392, 62393, 62405,
     62406, 62417, 62418, 62430, 62431, 62442, 62443, 62455, 62456, 62467,
     62468, 62480, 62481, 62492, 62493, 62505, 62506, 62517, 62518, 62530,
     62531, 62542, 62543, 62555, 62556, 62567, 62568, 62580, 62581, 62592,
     62593, 62605, 62606, 62617, 62618, 62630, 62631, 62642, 62643, 62655,
     62656, 62667, 62668, 62680, 62681, 62692, 62693, 62705, 62706, 62717,
     62718, 62730, 62731, 62742, 62743, 62755, 62756, 62767, 62768, 62780,
     62781, 62792, 62793, 62805, 62806, 62817, 62818, 62830, 62831, 62842,
     62843, 62855, 62856, 62867, 62868, 62880, 62881, 62892, 62893, 62905,
     62906, 62917, 62918, 62930, 62931, 62942, 62943, 62955, 62956, 62967,
     62968, 62980, 62981, 62992, 62993, 63005, 63006, 63017, 63018, 63030,
     63031, 63042, 63043, 63055, 63056, 63067, 63068, 63080, 63081, 63092,
     63093, 63105, 63106, 63117, 63118, 63130, 63131, 63142, 63143, 63155,
     63156, 63167, 63168, 63180, 63181, 63192, 63193, 63205, 63206, 63217,
     63218, 63230, 63231, 63242, 63243, 63255, 63256, 63267, 63268, 63280,
     63281, 63292, 63293, 63305, 63306, 63317, 63318, 63330, 63331, 63342,
     63343, 63355, 63356, 63367, 63368, 63380, 63381, 63392, 63393, 63405,
     63406, 63417, 63418, 63430, 63431, 63442, 63443, 63455, 63456, 63467,
     63468, 63480, 63481, 63492, 63493, 63505, 63506, 63517, 63518, 63530,
     63531, 63542, 63543, 63555, 63556, 63567, 63568, 63580, 63581, 63592,
     63593, 63605, 63606, 63617, 63618, 63630, 63631, 63642, 63643, 63655,
     63656, 63667, 63668, 63680, 63681, 63692, 63693, 63705, 63706, 63717,
     63718, 63730, 63731, 63742, 63743, 63755, 63756, 63767, 63768, 63780,
     63781, 63792, 63793, 63805, 63806, 63817, 63818, 63830, 63831, 63842,
     63843, 63855, 63856, 63867, 63868, 63880, 63881, 63892, 63893, 63905,
     63906, 63917, 63918, 63930, 63931, 63942, 63943, 63955, 63956, 63967,
     63968, 63980, 63981, 63992, 63993, 64005, 64006, 64017, 64018, 64030,
     64031, 64042, 64043, 64055, 64056, 64067, 64068, 64080, 64081, 64092,
     64093, 64105, 64106, 64117, 64118, 64130, 64131, 64142, 64143, 64155,
     64156, 64167, 64168, 64180, 64181, 64192, 64193, 64205, 64206, 64217,
     64218, 64230, 64231, 64242, 64243, 64255, 64256, 64267, 64268, 64280,
     64281, 64292, 64293, 64305, 64306, 64317, 64318, 64330, 64331, 64342,
     64343, 64355, 64356, 64367, 64368, 64380, 64381, 64392, 64393, 64405,
     64406, 64417, 64418, 64430, 64431, 64442, 64443, 64455, 64456, 64467,
     64468, 64480, 64481, 64492, 64493, 64505, 64506, 64517, 64518, 64530,
     64531, 64542, 64543, 64555, 64556, 64567, 64568, 64580, 64581, 64592,
     64593, 64605, 64606, 64617, 64618, 64630, 64631, 64642, 64643, 64655,
     64656, 64667, 64668, 64680, 64681, 64692, 64693, 64705, 64706, 64717,
     64718, 64730, 64731, 64742, 64743, 64755, 64756, 64767, 64768, 64780,
     64781, 64792, 64793, 64805, 64806, 64817, 64818, 64830, 64831, 64842,
     64843, 64855, 64856, 64867, 64868, 64880, 64881, 64892, 64893, 64905,
     64906, 64917, 64918, 64930, 64931, 64942, 64943, 64955, 64956, 64967,
     64968, 64980, 64981, 64992, 64993, 65005, 65006, 65017, 65018, 65030,
     65031, 65042, 65043, 65055, 65056, 65067, 65068, 65080, 65081, 65092,
     65093, 65105, 65106, 65117, 65118, 65130, 65131, 65142, 65143, 65155,
     65156, 65167, 65168, 65180, 65181, 65192, 65193, 65205, 65206, 65217,
     65218, 65230, 65231, 65242, 65243, 65255, 65256, 65267, 65268, 65280,
     65281, 65292, 65293, 65305, 65306, 65317, 65318, 65330, 65331, 65342,
     65343, 65355, 65356, 65367, 65368, 65380, 65381, 65392, 65393, 65405,
     65406, 65417, 65418, 65430, 65431, 65442, 65443, 65455, 65456, 65467,
     65468, 65480, 65481, 65492, 65493, 65505, 65506, 65517, 65518, 65530,
     65531}

\* int(program['temp_offset'] * 100): truncation toward zero
IntTimes100(c) ==
    CASE c \in TruncatedHundredths -> c - 1
      [] (0 - c) \in TruncatedHundredths -> c + 1
      [] OTHER -> c

\* one calendar program
Program(sh, sm, eh, em, temp, power, enabled) ==
    [start_hour |-> sh, start_minute |-> sm, end_hour |-> eh, end_minute |-> em,
     temp_offset |-> temp, power_offset |-> power, enabled |-> enabled]

\* the eight bytes of a program slot
ProgramBytes(program) ==
    <<program.start_hour, program.start_minute,
      program.end_hour, program.end_minute>>
    \o ToBytesLESigned(IntTimes100(program.temp_offset), 2)
    \o ToBytesLESigned(program.power_offset, 1)
    \o <<IF program.enabled THEN 1 ELSE 0>>

\* a bytearray item must be in range(256); to_bytes must not overflow
IsByte(v) == 0 <= v /\ v <= 255
ProgramEncodable(program) ==
    /\ IsByte(program.start_hour) /\ IsByte(program.start_minute)
    /\ IsByte(program.end_hour) /\ IsByte(program.end_minute)
    /\ FitsSigned(IntTimes100(program.temp_offset), 2)
    /\ FitsSigned(program.power_offset, 1)

CalendarRecordLen == 49
VacationRecordLen == 15

\* a str value: the sequence of its code points
Str(points) == [k |-> "str", points |-> points]

MaxPrograms == 6
Zeros(n) == [i \in 1..n |-> 0]

\* data = bytearray(49); data[0] = day; slot i holds programs[i] or zeros
CalendarRecord(day, programs) ==
    LET slot(i) == IF i < Len(programs) THEN ProgramBytes(programs[i + 1])
                   ELSE Zeros(8)
    IN <<day>> \o slot(0) \o slot(1) \o slot(2) \o slot(3) \o slot(4) \o slot(5)

\* the program parsed from the eight bytes at offset
ParseProgram(data, offset) ==
    Program(data[offset + 1], data[offset + 2], data[offset + 3], data[offset + 4],
            FromBytesLESigned(Slice(data, offset + 4, offset + 6)),
            FromBytesLESigned(<<data[offset + 7]>>),
            data[offset + 8] # 0)

\* faulty variant: a payload of the day byte only counts as no data
ParseCalendarDayNoEmpty(data) ==
    IF Len(data) <= 1 THEN NoneV
    ELSE IF (Len(data) - 1) % 8 = 0
         THEN [k |-> "calendar", day |-> data[1],
               programs |-> [i \in 1..((Len(data) - 1) \div 8) |->
                               ParseProgram(data, 1 + (i - 1) * 8)]]
    ELSE NoneV

\* what read_calendar_day makes of the bytes read_split_characteristic
\* returned (temp_offset_raw / 100.0 is kept in hundredths)
ParseCalendarDay(data) ==
    IF data = <<>> THEN NoneV
    ELSE IF Len(data) = 1
         THEN [k |-> "calendar", day |-> data[1], programs |-> <<>>]
    ELSE IF (Len(data) - 1) % 8 = 0
         THEN [k |-> "calendar", day |-> data[1],
               programs |-> [i \in 1..((Len(data) - 1) \div 8) |->
                               ParseProgram(data, 1 + (i - 1) * 8)]]
    ELSE NoneV

\* external control records a device can hold: the extended format (19 bytes and longer),
\* the legacy one-byte format, nothing, and a record one byte short
ForceRecord(n) == [i \in 1..n |-> 100 + i]
ForceRecords == {ForceRecord(19), ForceRecord(20), ForceRecord(18), <<50>>, <<>>}

\* the records a device holds in its single-characteristic settings: room
\* heating, adaptive control off, 30.10.2026 12:00:00, daylight saving on
\* with one-hour steps at UTC+2, floor limits 5 to 50 degrees, no
\* calibration, software "1;2;3", hardware 3, 1500 W, 25 m2, 12.34 EUR per
\* kWh, calendar mode off
DeviceChars ==
    [c \in {"HEATING_MODE_UUID", "ADAPTIVE_TEMPERATURE_CONTROL_UUID",
            "DATE_AND_TIME_UUID", "DAYLIGHT_SAVING_UUID", "FLOOR_LIMITS_UUID",
            "CALIBRATION_VALUE_FOR_ROOM_TEMPERATURE_UUID",
            "SOFTWARE_REVISION_UUID", "HARDWARE_REVISION_UUID",
            "HEATING_POWER_UUID", "FLOOR_AREA_UUID", "ENERGY_UNIT_UUID",
            "CALENDAR_MODE_UUID"} |->
       CASE c = "HEATING_MODE_UUID" -> <<2>>
         [] c = "ADAPTIVE_TEMPERATURE_CONTROL_UUID" -> <<0>>
         [] c = "DATE_AND_TIME_UUID" -> <<234, 7, 10, 30, 12, 0, 0>>
         [] c = "DAYLIGHT_SAVING_UUID" -> <<1, 0, 60, 0, 60, 0, 120, 0>>
         [] c = "FLOOR_LIMITS_UUID" -> <<244, 1, 136, 19>>
         [] c = "CALIBRATION_VALUE_FOR_ROOM_TEMPERATURE_UUID" -> <<0, 0>>
         [] c = "SOFTWARE_REVISION_UUID" -> <<49, 59, 50, 59, 51>>
         [] c = "HARDWARE_REVISION_UUID" -> <<3, 0, 0, 0>>
         [] c = "HEATING_POWER_UUID" -> <<220, 5>>
         [] c = "FLOOR_AREA_UUID" -> <<25, 0>>
         [] c = "ENERGY_UNIT_UUID" -> <<1, 0, 210, 4>>
         [] OTHER -> <<0>>]

\* a device that answers these reads with nothing, and with a byte that is
\* not UTF-8 for its software revision
BlankChars ==
    [c \in DOMAIN DeviceChars |->
       IF c = "SOFTWARE_REVISION_UUID" THEN <<255>> ELSE <<>>]

\* the thermostat: it holds the boost record last written (all zero at
\* first) and the vacation record, of which the last byte
\* (vacation mode on/off) is its own and read only, the default period being
\* 1.7.2016 - 1.8.2016; writing a day number to the control characteristic
\* selects that day for reading, writing 0 asks it to store to flash; a day
\* record arrives in frames, the frame with the final flag completes it and
\* byte 0 of the record names the day it belongs to
DeviceInit ==
    [sel |-> 0, rx |-> <<>>, boost |-> Zeros(8), force |-> ForceRecord(19),
     chars |-> DeviceChars, frid |-> PairingData,
     days |-> [d \in 1..7 |-> <<d>> \o Zeros(CalendarRecordLen - 1)],
     vacation |-> <<16, 7, 1, 0, 0, 16, 8, 1, 0, 0, 0, 0, 0, 0, 0>>]

DeviceAfterControl(dev, byte) == [dev EXCEPT !.sel = byte]

DeviceAfterFrame(dev, c, packet) ==
    IF c # "CALENDAR_DAY_UUID" THEN dev
    ELSE LET rec == dev.rx \o Tail(packet)
         IN IF ~BitSet(packet[1], FinalFlag) THEN [dev EXCEPT !.rx = rec]
            ELSE IF Len(rec) = CalendarRecordLen /\ rec[1] \in 1..7
                 THEN [dev EXCEPT !.rx = <<>>, !.days[rec[1]] = rec]
                 ELSE [dev EXCEPT !.rx = <<>>]

\* the frame the thermostat answers to the n-th read of the calendar day
\* characteristic: the selected day's record in two frames
CalendarFrame(dev, n) ==
    IF dev.sel \notin 1..7 THEN <<>>
    ELSE LET rec == dev.days[dev.sel]
             half == (CalendarRecordLen + 1) \div 2
         IN IF n = 0 THEN Frame(0, Slice(rec, 0, half))
            ELSE Frame(FinalFlag, Slice(rec, half, Len(rec)))

\* ------------------------------------------------------------------ history
\* Gregorian calendar as Python's datetime computes it; an instant is kept
\* as the number of hours since 2000-01-01T00:00 UTC
IsLeap(y) == (y % 4 = 0 /\ y % 100 # 0) \/ y % 400 = 0

DaysInMonth(y, m) ==
    CASE m \in {4, 6, 9, 11} -> 30
      [] m = 2 -> (IF IsLeap(y) THEN 29 ELSE 28)
      [] OTHER -> 31

DaysInYear(y) == IF IsLeap(y) THEN 366 ELSE 365

RECURSIVE DaysBeforeYear(_)
DaysBeforeYear(y) ==
    IF y = 2000 THEN 0
    ELSE IF y > 2000 THEN DaysBeforeYear(y - 1) + DaysInYear(y - 1)
    ELSE DaysBeforeYear(y + 1) - DaysInYear(y)

RECURSIVE DaysBeforeMonth(_, _)
DaysBeforeMonth(y, m) ==
    IF m <= 1 THEN 0 ELSE DaysBeforeMonth(y, m - 1) + DaysInMonth(y, m - 1)

\* datetime(y, m, d, h) raises ValueError unless the fields name a date
ValidDate(y, m, d, h) ==
    /\ m \in 1..12
    /\ d >= 1 /\ d <= DaysInMonth(y, m)
    /\ h \in 0..23

\* datetime(y, m, d, h, tzinfo=UTC) as an instant
HoursSince2000(y, m, d, h) ==
    (DaysBeforeYear(y) + DaysBeforeMonth(y, m) + d - 1) * 24 + h

\* datetime(y, m, 1) - relativedelta(months=k) as an instant
MonthsBefore(y, m, k) ==
    LET n == y * 12 + (m - 1) - k
    IN HoursSince2000(n \div 12, (n % 12) + 1, 1, 0)

\* min(max(1, day), 28)
ClampDay(day) == IF day < 1 THEN 1 ELSE IF day > 28 THEN 28 ELSE day

\* a decoded number, and None for an unset raw value
Num(v) == [k |-> "num", v |-> v]
Unset(raw, sentinel) == IF raw = sentinel THEN NoneV ELSE Num(raw)

\* number of sub-records of `size` bytes that fit after the first `start`
\* bytes, at most `most`: the loops test len(data) >= pos + size each round
Fitting(data, start, size, most) ==
    LET n == (Len(data) - start) \div size
    IN IF n > most THEN most ELSE n

\* read_monitoring_data, daily section: header day, month, year at 0..2,
\* then up to 7 pairs (delta_days, ratio)
DailyPower(data) ==
    IF Len(data) < 3 THEN <<>>
    ELSE [i \in 1..Fitting(data, 3, 2, 7) |->
            [time |-> HoursSince2000(2000 + data[3], data[2], data[1], 0)
                      - 24 * data[2 * i + 2],
             ratio |-> Unset(data[2 * i + 3], 255)]]

\* monthly section: header month, year at 19..20, then up to 12 pairs
\* (delta_months, ratio)
MonthlyPower(data) ==
    IF Len(data) < 21 THEN <<>>
    ELSE [i \in 1..Fitting(data, 21, 2, 12) |->
            [time |-> MonthsBefore(2000 + data[21], data[20], data[2 * i + 20]),
             ratio |-> Unset(data[2 * i + 21], 255)]]

\* temperature section: header hour, day, month, year at 47..50, then up to
\* 168 records (delta_hours, floor int16, room int16); temperatures in tenths
TemperatureHistory(data) ==
    IF Len(data) < 51 THEN <<>>
    ELSE [i \in 1..Fitting(data, 51, 5, 168) |->
            LET pos == 51 + 5 * (i - 1)
            IN [time |-> HoursSince2000(2000 + data[51], data[50],
                                        ClampDay(data[49]), data[48])
                         - data[pos + 1],
                floor_temp |-> Unset(FromBytesLESigned(Slice(data, pos + 1, pos + 3)), 32767),
                room_temp |-> Unset(FromBytesLESigned(Slice(data, pos + 3, pos + 5)), 32767)]]

\* a datetime() call of a section that has a sub-record raises ValueError
MonitoringRaises(data) ==
    \/ /\ Len(data) >= 5
       /\ ~ValidDate(2000 + data[3], data[2], data[1], 0)
    \/ /\ Len(data) >= 23
       /\ ~ValidDate(2000 + data[21], data[20], 1, 0)
    \/ /\ Len(data) >= 56
       /\ ~ValidDate(2000 + data[51], data[50], ClampDay(data[49]), data[48])

\* what read_monitoring_data makes of the bytes read_split_characteristic
\* returned: None for no data or an exception, else the three sections
ParseMonitoring(data) ==
    IF data = <<>> \/ MonitoringRaises(data) THEN NoneV
    ELSE [k |-> "monitoring",
          daily_power |-> DailyPower(data),
          monthly_power |-> MonthlyPower(data),
          temperature_history |-> TemperatureHistory(data)]

\* length of a power-consumption record: header of 4 and 24 pairs
PowerRecordLen == 52

\* read_power_consumption: the pairs (delta_hours, ratio) whose ratio is set
RECURSIVE PowerMeasurements(_, _)
PowerMeasurements(data, i) ==
    IF i > 24 THEN <<>>
    ELSE (IF data[2 * i + 4] = 255 THEN <<>>
          ELSE <<[timestamp |-> HoursSince2000(2000 + data[4], data[3], data[2], data[1])
                                - data[2 * i + 3],
                  ratio |-> data[2 * i + 4]]>>)
         \o PowerMeasurements(data, i + 1)

\* what read_power_consumption makes of the bytes: None for no data, a
\* short header, an index past the end, a ValueError of datetime(), or no
\* measurement at all (`timestamp` is then unbound); the `timestamp` entry
\* is the last measurement's
ParsePowerConsumption(data) ==
    IF Len(data) < PowerRecordLen THEN NoneV
    ELSE IF ~ValidDate(2000 + data[4], data[3], data[2], data[1]) THEN NoneV
    ELSE LET ms == PowerMeasurements(data, 1)
         IN IF ms = <<>> THEN NoneV
            ELSE [k |-> "power", timestamp |-> ms[Len(ms)].timestamp,
                  measurements |-> ms]

\* records the device holds, headers dated March 2024 at 13:00: the
\* monitoring record (daily section at 0, monthly at 19, temperatures at 47)
\* with its temperature header on day `tday` and every room temperature
\* `room` tenths; the power record of day `day` whose oldest ratio is `last`
MonitoringRecord(tday, room) ==
    <<15, 3, 24>> \o [j \in 1..14 |-> IF j % 2 = 1 THEN (j - 1) \div 2 ELSE 40 + j]
    \o <<0, 0>>
    \o <<3, 24>> \o [j \in 1..24 |-> IF j % 2 = 1 THEN (j - 1) \div 2 ELSE 50 + j]
    \o <<0, 0>>
    \o <<13, tday, 3, 24>>
    \o [j \in 1..840 |->
          LET r == (j - 1) % 5
          IN CASE r = 0 -> (j - 1) \div 5
               [] r = 1 -> 230
               [] r = 2 -> 0
               [] r = 3 -> room % 256
               [] OTHER -> room \div 256]

PowerRecord(day, last) ==
    <<13, day, 3, 24>>
    \o [j \in 1..48 |-> IF j % 2 = 1 THEN (j - 1) \div 2
                        ELSE IF j = 48 THEN last ELSE 30 + j]

\* the records the device may hold: whole ones, and ones cut short
MonitoringPayloads ==
    {MonitoringRecord(31, 300), MonitoringRecord(15, 210),
     SubSeq(MonitoringRecord(31, 300), 1, 5),
     SubSeq(MonitoringRecord(31, 300), 1, 58)}
PowerPayloads ==
    {PowerRecord(31, 60), PowerRecord(15, 0), SubSeq(PowerRecord(31, 60), 1, 10)}

\* the frame the device answers to the n-th read of a history
\* characteristic: a record in one final frame, nothing, or the first
\* whole record in two frames
HistoryFrames(records, whole, n) ==
    LET half == Len(whole) \div 2
    IN IF n = 0
       THEN {<<>>} \cup {Frame(FinalFlag, r) : r \in records}
            \cup (IF n + 1 < MaxFrames THEN {Frame(0, Slice(whole, 0, half))} ELSE {})
       ELSE {Frame(FinalFlag, Slice(whole, half, Len(whole)))}

\* ----------------------------------------------------- device answers
\* what the device may answer to the n-th read of characteristic c
DeviceReplies(c, n) ==
    CASE c = "REAL_TIME_INDICATION_UUID" -> DevicePackets(n)
      [] c = "CALENDAR_DAY_UUID" -> {CalendarFrame(thermostat, n)}
      [] c = "MONITORING_DATA_UUID"
           -> HistoryFrames(MonitoringPayloads, MonitoringRecord(31, 300), n)
      [] c = "REAL_TIME_INDICATION_POWER_CONSUMPTION_UUID"
           -> HistoryFrames(PowerPayloads, PowerRecord(31, 60), n)
      [] OTHER -> ExamplePackets(n)

\* ---------------------------------------------------------------- Init
Init ==
    /\ client = None
    /\ connect_lock = [owner |-> 0, waiters |-> <<>>]
    /\ store \in {None, FactoryResetIdOf(PairingData)}
    /\ nOpened = 0
    /\ linkUp = {}
    /\ authDone = {}
    /\ linkErr = {}
    /\ hlog = <<>>
    /\ task = [t \in Tasks |-> IdleTask]
    /\ cur = 0
    /\ opsLeft = MaxOps
    /\ last_data = NoneV
    /\ last_update = None
    /\ update_lock = [owner |-> 0, waiters |-> <<>>]
    /\ failed = NoFailure
    /\ clock = 1
    /\ ticks = 0
    /\ thermostat = DeviceInit

\* the same with any id stored and a device that kept or has renewed its
\* factory reset id since the id was stored
InitAuth ==
    /\ client = None
    /\ connect_lock = [owner |-> 0, waiters |-> <<>>]
    /\ store \in {None, FactoryResetIdOf(PairingData),
                  FactoryResetIdOf(ResetPairingData)}
    /\ nOpened = 0
    /\ linkUp = {}
    /\ authDone = {}
    /\ linkErr = {}
    /\ hlog = <<>>
    /\ task = [t \in Tasks |-> IdleTask]
    /\ cur = 0
    /\ opsLeft = MaxOps
    /\ last_data = NoneV
    /\ last_update = None
    /\ update_lock = [owner |-> 0, waiters |-> <<>>]
    /\ failed = NoFailure
    /\ clock = 1
    /\ ticks = 0
    /\ thermostat \in {DeviceInit, [DeviceInit EXCEPT !.frid = ResetPairingData]}

\* the same on a device whose vacation record is the default period, was
\* never set (all dates zero) or is cut short
InitVacation ==
    /\ client = None
    /\ connect_lock = [owner |-> 0, waiters |-> <<>>]
    /\ store \in {None, FactoryResetIdOf(PairingData)}
    /\ nOpened = 0
    /\ linkUp = {}
    /\ authDone = {}
    /\ linkErr = {}
    /\ hlog = <<>>
    /\ task = [t \in Tasks |-> IdleTask]
    /\ cur = 0
    /\ opsLeft = MaxOps
    /\ last_data = NoneV
    /\ last_update = None
    /\ update_lock = [owner |-> 0, waiters |-> <<>>]
    /\ failed = NoFailure
    /\ clock = 1
    /\ ticks = 0
    /\ thermostat \in {DeviceInit,
                       [DeviceInit EXCEPT !.vacation = Zeros(VacationRecordLen)],
                       [DeviceInit EXCEPT !.vacation = <<16, 7, 1>>]}

\* the same for MaxOpsManager calls
InitManager ==
    /\ client = None
    /\ connect_lock = [owner |-> 0, waiters |-> <<>>]
    /\ store \in {None, FactoryResetIdOf(PairingData)}
    /\ nOpened = 0
    /\ linkUp = {}
    /\ authDone = {}
    /\ linkErr = {}
    /\ hlog = <<>>
    /\ task = [t \in Tasks |-> IdleTask]
    /\ cur = 0
    /\ opsLeft = MaxOpsManager
    /\ last_data = NoneV
    /\ last_update = None
    /\ update_lock = [owner |-> 0, waiters |-> <<>>]
    /\ failed = NoFailure
    /\ clock = 1
    /\ ticks = 0
    /\ thermostat = DeviceInit

\* the same on a device of any firmware: the external control record is in
\* the extended or in the legacy format
InitForce ==
    /\ client = None
    /\ connect_lock = [owner |-> 0, waiters |-> <<>>]
    /\ store \in {None, FactoryResetIdOf(PairingData)}
    /\ nOpened = 0
    /\ linkUp = {}
    /\ authDone = {}
    /\ linkErr = {}
    /\ hlog = <<>>
    /\ task = [t \in Tasks |-> IdleTask]
    /\ cur = 0
    /\ opsLeft = MaxOps
    /\ last_data = NoneV
    /\ last_update = None
    /\ update_lock = [owner |-> 0, waiters |-> <<>>]
    /\ failed = NoFailure
    /\ clock = 1
    /\ ticks = 0
    /\ thermostat \in {[DeviceInit EXCEPT !.force = r] : r \in ForceRecords}

\* the same on a device that holds its settings, or that answers their
\* reads with nothing
InitSettings ==
    /\ client = None
    /\ connect_lock = [owner |-> 0, waiters |-> <<>>]
    /\ store \in {None, FactoryResetIdOf(PairingData)}
    /\ nOpened = 0
    /\ linkUp = {}
    /\ authDone = {}
    /\ linkErr = {}
    /\ hlog = <<>>
    /\ task = [t \in Tasks |-> IdleTask]
    /\ cur = 0
    /\ opsLeft = MaxOps
    /\ last_data = NoneV
    /\ last_update = None
    /\ update_lock = [owner |-> 0, waiters |-> <<>>]
    /\ failed = NoFailure
    /\ clock = 1
    /\ ticks = 0
    /\ thermostat \in {DeviceInit, [DeviceInit EXCEPT !.chars = BlankChars]}

\* ------------------------------------------------------ starting a call
\* the operations started under each specification
SessionOps == {"connect", "ensure_connection", "cleanup", "read_boost",
               "async_remove_device_data"}
TransferOps == {"read_boost", "read_split_characteristic", "write_split_characteristic"}
RealTimeOps == {"get_real_time_data", "read_split_characteristic"}

\* the first code position of an operation: the chunked operations and
\* read_force_control begin with `await self.ensure_connection()`
Entry(o) ==
    IF o \in {"read_split_characteristic", "write_split_characteristic",
              "read_force_control"}
    THEN "ensure_connection" ELSE o

\* a get_real_time_data call of task v is in progress
Pending(v) == task[v].op = "get_real_time_data" /\ task[v].pc \notin {"idle", "done"}

\* a caller (entity update, service call, setup) invokes a public operation;
\* read_split_characteristic is called with REAL_TIME_INDICATION_UUID, as the
\* current-power sensor and the sensor setup do
Start(t, o) ==
    /\ cur = 0
    /\ task[t].pc \in {"idle", "done"}
    /\ opsLeft > 0
    /\ opsLeft' = opsLeft - 1
    /\ \E m \in (IF o = "get_real_time_data" THEN MaxAges ELSE {0}),
          d \in (IF o = "write_split_characteristic" THEN Payloads ELSE {<<>>}) :
         task' = [u \in Tasks |->
                    IF u = t
                    THEN [IdleTask EXCEPT !.pc = Entry(o), !.op = o,
                                          !.max_age = m, !.data = d,
                                          !.uuid = IF o \in RealTimeOps
                                                   THEN "REAL_TIME_INDICATION_UUID"
                                                   ELSE "none",
                                          !.conc = IF o = "get_real_time_data"
                                                   THEN {v \in Tasks \ {t} : Pending(v)}
                                                   ELSE {}]
                    ELSE [task[u] EXCEPT !.conc = IF o = "get_real_time_data" /\ Pending(u)
                                                  THEN @ \cup {t} ELSE @ \ {t}]]
    /\ cur' = t
    /\ UNCHANGED <<sessionVars, linkVars, hlog, coordVars, timeVars, thermostat>>

\* a caller reads another chunked characteristic
StartRead(t, c) ==
    /\ cur = 0
    /\ task[t].pc \in {"idle", "done"}
    /\ opsLeft > 0
    /\ opsLeft' = opsLeft - 1
    /\ task' = Set(t, [IdleTask EXCEPT !.pc = Entry("read_split_characteristic"),
                                      !.op = "read_split_characteristic",
                                      !.uuid = c])
    /\ cur' = t
    /\ UNCHANGED <<sessionVars, linkVars, hlog, coordVars, timeVars, thermostat>>

\* the operation returns to its caller (or its exception leaves it); a
\* caller of get_real_time_data keeps what it received, the caller of
\* cleanup (the unload of the entry) stays marked as having completed it,
\* the other callers are ready for their next call
Return(t) ==
    /\ cur = t
    /\ task[t].pc = "ret"
    /\ task' = Set(t, IF task[t].op = "get_real_time_data"
                      THEN [IdleTask EXCEPT !.pc = "done", !.op = task[t].op,
                             !.reads = task[t].reads,
                             !.conc = task[t].conc,
                             !.res = [st |-> IF task[t].exc = "none" THEN "ok" ELSE "raised",
                                      val |-> task[t].res.val]]
                      ELSE IF task[t].op = "cleanup"
                      THEN [IdleTask EXCEPT !.pc = "done", !.op = "cleanup"]
                      ELSE IdleTask)
    /\ cur' = 0
    /\ UNCHANGED <<sessionVars, linkVars, hlog, opsLeft, coordVars, timeVars, thermostat>>

\* ------------------------------------------------------ ensure_connection
\* if not self.client or not self.client.is_connected: await self.connect()
ensure_connection(t) ==
    /\ cur = t
    /\ task[t].pc = "ensure_connection"
    /\ task' = Set(t, [task[t] EXCEPT !.pc =
                          IF ClientConnected THEN AfterEnsure(task[t].op) ELSE "connect"])
    /\ UNCHANGED <<sessionVars, linkVars, hlog, cur, opsLeft, coordVars, timeVars, thermostat>>

\* ---------------------------------------------------------------- connect
\* faulty variant: a failed connect() keeps the handle
ClientKeptOnConnectFailure == client

\* what the except clause of connect() leaves in self.client
ClientOnConnectFailure == None

\* faulty variant: a BleakError leaves the handle in place
ClientKeptAfterRead(out) == client

\* what the except BleakError clause of an operation leaves in self.client
ClientAfterRead(out) == IF out = "bleak" THEN None ELSE client

\* except Exception: self.client = None; raise -- finally: release the lock
\* (out is the answer of the GATT request that failed, if one did)
ConnectRaiseOn(t, kind, out) ==
    /\ client' = ClientOnConnectFailure
    /\ connect_lock' = Release(connect_lock)
    /\ task' = Set(t, [task[t] EXCEPT !.pc = "c_ret", !.exc = kind, !.reqH = None,
                                      !.gerr = @ \/ out = "bleak"])
    /\ cur' = t

ConnectRaise(t, kind) == ConnectRaiseOn(t, kind, "none")

\* connect() returns normally -- finally: release the lock
ConnectReturnOn(t, c, out) ==
    /\ client' = c
    /\ connect_lock' = Release(connect_lock)
    /\ task' = Set(t, [task[t] EXCEPT !.pc = "c_ret", !.reqH = None,
                                      !.gerr = @ \/ out = "bleak"])
    /\ cur' = t

ConnectReturn(t, c) == ConnectReturnOn(t, c, "none")

\* a GATT request of the connect sequence is issued on self.client: with
\* client None the attribute access raises, which connect() turns into its
\* failure; otherwise the task suspends at `label` until the transport answers
ConnectIssue(t, label, sid) ==
    IF client = None
    THEN ConnectRaise(t, "other")
    ELSE /\ task' = Set(t, [task[t] EXCEPT !.pc = label, !.reqH = client, !.sid = sid])
         /\ cur' = 0
         /\ UNCHANGED <<client, connect_lock>>

LinkErrAfter(h, out) == IF out = "bleak" THEN linkErr \cup {h} ELSE linkErr

\* `if await self._connect_lock.acquire():` -- asyncio.Lock.acquire() returns
\* True, at once when the lock is free and after waiting otherwise, so the
\* else branch (raise "Already connecting") is never taken
connect(t) ==
    /\ cur = t
    /\ task[t].pc = "connect"
    /\ IF LockFree(connect_lock)
       THEN /\ connect_lock' = [connect_lock EXCEPT !.owner = t]
            /\ task' = Set(t, [task[t] EXCEPT !.pc = "c_locked"])
            /\ cur' = t
       ELSE /\ connect_lock' = Enqueue(connect_lock, t)
            /\ task' = Set(t, [task[t] EXCEPT !.pc = "c_lock"])
            /\ cur' = 0
    /\ UNCHANGED <<client, store, linkVars, hlog, opsLeft, coordVars, timeVars, thermostat>>

\* the waiter at the head of the queue is resumed once the lock is released
connect_acquired(t) ==
    /\ cur = 0
    /\ task[t].pc = "c_lock"
    /\ connect_lock.owner = 0
    /\ connect_lock.waiters # <<>>
    /\ Head(connect_lock.waiters) = t
    /\ connect_lock' = Grant(connect_lock, t)
    /\ task' = Set(t, [task[t] EXCEPT !.pc = "c_locked"])
    /\ cur' = t
    /\ UNCHANGED <<client, store, linkVars, hlog, opsLeft, coordVars, timeVars, thermostat>>

\* under the lock: return if already connected, else look the device up and
\* start establish_connection
connect_locked(t) ==
    /\ cur = t
    /\ task[t].pc = "c_locked"
    /\ IF ClientConnected
       THEN /\ ConnectReturn(t, client)
            /\ UNCHANGED hlog
       ELSE \E device \in BOOLEAN :
              /\ device => nOpened < MaxHandles
              /\ IF ~device
                 THEN /\ ConnectRaise(t, "other")
                      /\ UNCHANGED hlog
                 ELSE /\ task' = Set(t, [task[t] EXCEPT !.pc = "c_establish"])
                      /\ cur' = 0
                      /\ hlog' = <<>>
                      /\ UNCHANGED <<client, connect_lock>>
    /\ UNCHANGED <<store, linkVars, opsLeft, coordVars, timeVars, thermostat>>

\* self.client = await establish_connection(...); then await self.client.pair()
establish_connection(t) ==
    /\ cur = 0
    /\ task[t].pc = "c_establish"
    /\ \E out \in {"ok", "bleak", "other"} :
         IF out = "ok"
         THEN LET h == nOpened + 1 IN
              /\ nOpened' = h
              /\ linkUp' = linkUp \cup {h}
              /\ client' = h
              /\ hlog' = Append(hlog, Ev("establish", h))
              /\ task' = Set(t, [task[t] EXCEPT !.pc = "c_pair", !.reqH = h])
              /\ cur' = 0
              /\ UNCHANGED <<connect_lock, authDone, linkErr>>
         ELSE /\ ConnectRaise(t, out)
              /\ UNCHANGED <<linkVars, hlog>>
    /\ UNCHANGED <<store, opsLeft, coordVars, timeVars, thermostat>>

\* pair() answers; then stored_id = await self.read_device_info()
pair(t) ==
    /\ cur = 0
    /\ task[t].pc = "c_pair"
    /\ \E out \in Outcomes(task[t].reqH) :
         /\ linkErr' = LinkErrAfter(task[t].reqH, out)
         /\ IF out = "ok"
            THEN /\ hlog' = Append(hlog, Ev("pair", task[t].reqH))
                 /\ task' = Set(t, [task[t] EXCEPT !.pc = "c_load", !.reqH = None])
                 /\ cur' = 0
                 /\ UNCHANGED <<client, connect_lock>>
            ELSE /\ ConnectRaise(t, out)
                 /\ UNCHANGED hlog
    /\ UNCHANGED <<store, nOpened, linkUp, authDone, opsLeft, coordVars, timeVars, thermostat>>

\* the device is asked for its id on every connect
NoStoredIdEver(stored_id) == TRUE

\* if stored_id is None: only then the factory reset id is read and saved
NoStoredId(stored_id) == stored_id = None

\* the credential store answers read_device_info(): with no stored id the
\* factory reset id is read from the device, else the stored id is written
read_device_info(t) ==
    /\ cur = 0
    /\ task[t].pc = "c_load"
    /\ \E out \in {"ok", "other"} :
         IF out = "ok"
         THEN /\ hlog' = Append(hlog, Ev("load", store))
              /\ IF NoStoredId(store)
                 THEN ConnectIssue(t, "c_read_frid", None)
                 ELSE ConnectIssue(t, "c_write_frid", store)
         ELSE /\ ConnectRaise(t, "other")
              /\ UNCHANGED hlog
    /\ UNCHANGED <<store, linkVars, opsLeft, coordVars, timeVars, thermostat>>

\* read_factory_reset_id: int.from_bytes(data[:4], "little"); 0 (device not
\* in pairing mode) and every read error end the attempt with an Exception
read_factory_reset_id(t) ==
    /\ cur = 0
    /\ task[t].pc = "c_read_frid"
    /\ \E out \in Outcomes(task[t].reqH),
          data \in {thermostat.frid, NotPairingData} :
         LET device_id == FactoryResetIdOf(data) IN
         /\ linkErr' = LinkErrAfter(task[t].reqH, out)
         /\ IF out = "ok" /\ device_id # 0
            THEN /\ hlog' = Append(hlog, Ev("read_frid", device_id))
                 /\ task' = Set(t, [task[t] EXCEPT !.pc = "c_save", !.reqH = None,
                                       !.sid = device_id])
                 /\ cur' = 0
                 /\ UNCHANGED <<client, connect_lock>>
            ELSE /\ ConnectRaiseOn(t, "other", out)
                 /\ UNCHANGED hlog
    /\ UNCHANGED <<store, nOpened, linkUp, authDone, opsLeft, coordVars, timeVars, thermostat>>

\* write_device_info(mac_address, device_id) awaits async_save_device_data:
\* its store.async_load() answers (the entries now stored, to which the id
\* is added), and store.async_save(current_data) is awaited
write_device_info(t) ==
    /\ cur = 0
    /\ task[t].pc = "c_save"
    /\ \E out \in {"ok", "other"} :
         IF out = "ok"
         THEN /\ task' = Set(t, [task[t] EXCEPT !.pc = "c_store"])
              /\ cur' = 0
              /\ UNCHANGED <<client, connect_lock>>
         ELSE ConnectRaise(t, "other")
    /\ UNCHANGED <<store, linkVars, hlog, opsLeft, coordVars, timeVars, thermostat>>

\* store.async_save answers: the id is stored; stored_id = device_id; then
\* write_factory_reset_id(stored_id)
async_save_device_data(t) ==
    /\ cur = 0
    /\ task[t].pc = "c_store"
    /\ \E out \in {"ok", "other"} :
         IF out = "ok"
         THEN /\ store' = task[t].sid
              /\ hlog' = Append(hlog, Ev("save", task[t].sid))
              /\ ConnectIssue(t, "c_write_frid", task[t].sid)
         ELSE /\ ConnectRaise(t, "other")
              /\ UNCHANGED <<store, hlog>>
    /\ UNCHANGED <<linkVars, opsLeft, coordVars, timeVars, thermostat>>

\* async_remove_device_data(mac_address), called when the entry is unloaded:
\* store.async_load() is awaited
async_remove_device_data(t) ==
    /\ cur = t
    /\ task[t].pc = "async_remove_device_data"
    /\ task' = Set(t, [task[t] EXCEPT !.pc = "rm_load"])
    /\ cur' = 0
    /\ UNCHANGED <<sessionVars, linkVars, hlog, opsLeft, coordVars, timeVars, thermostat>>

\* the load answers: an address that is stored is deleted from the loaded
\* entries and the store is saved (or removed); an address that is not
\* stored, or an exception, ends the call
remove_loaded(t) ==
    /\ cur = 0
    /\ task[t].pc = "rm_load"
    /\ \E out \in {"ok", "other"} :
         IF out = "ok" /\ store # None
         THEN /\ task' = Set(t, [task[t] EXCEPT !.pc = "rm_save"])
              /\ cur' = 0
         ELSE /\ task' = Set(t, [task[t] EXCEPT !.pc = "ret"])
              /\ cur' = t
    /\ UNCHANGED <<sessionVars, linkVars, hlog, opsLeft, coordVars, timeVars, thermostat>>

\* store.async_save / async_remove answers: the entries written are those
\* loaded without the address; an exception is logged
remove_saved(t) ==
    /\ cur = 0
    /\ task[t].pc = "rm_save"
    /\ \E out \in {"ok", "other"} :
         store' = IF out = "ok" THEN None ELSE store
    /\ task' = Set(t, [task[t] EXCEPT !.pc = "ret"])
    /\ cur' = t
    /\ UNCHANGED <<client, connect_lock, linkVars, hlog, opsLeft, coordVars, timeVars,
                   thermostat>>

\* write_factory_reset_id answered; then read_model_number(), which returns
\* None without a read when the client is not connected (and then so does
\* read_device_name)
write_factory_reset_id(t) ==
    /\ cur = 0
    /\ task[t].pc = "c_write_frid"
    /\ \E out \in Outcomes(task[t].reqH) :
         /\ linkErr' = LinkErrAfter(task[t].reqH, out)
         /\ IF out = "ok"
            THEN /\ authDone' = authDone \cup {task[t].reqH}
                 /\ hlog' = Append(hlog, Ev("write_frid", ReceivedId(IdBytes(task[t].sid))))
                 /\ IF ClientConnected
                    THEN /\ task' = Set(t, [task[t] EXCEPT !.pc = "c_read_model",
                                               !.reqH = client])
                         /\ cur' = 0
                         /\ UNCHANGED <<client, connect_lock>>
                    ELSE ConnectReturn(t, client)
            ELSE /\ ConnectRaiseOn(t, "other", out)
                 /\ UNCHANGED <<authDone, hlog>>
    /\ UNCHANGED <<store, nOpened, linkUp, opsLeft, coordVars, timeVars, thermostat>>

\* read_model_number: a BleakError clears self.client and yields None, any
\* other failure yields None; then read_device_name()
read_model_number(t) ==
    /\ cur = 0
    /\ task[t].pc = "c_read_model"
    /\ \E out \in Outcomes(task[t].reqH) :
         LET c == ClientAfterRead(out) IN
         /\ linkErr' = LinkErrAfter(task[t].reqH, out)
         /\ hlog' = Append(hlog, Ev("read_model", task[t].reqH))
         /\ IF c # None /\ c \in linkUp
            THEN /\ client' = c
                 /\ task' = Set(t, [task[t] EXCEPT !.pc = "c_read_name", !.reqH = c,
                                                  !.gerr = @ \/ out = "bleak"])
                 /\ cur' = 0
                 /\ UNCHANGED connect_lock
            ELSE ConnectReturnOn(t, c, out)
    /\ UNCHANGED <<store, nOpened, linkUp, authDone, opsLeft, coordVars, timeVars, thermostat>>

read_device_name(t) ==
    /\ cur = 0
    /\ task[t].pc = "c_read_name"
    /\ \E out \in Outcomes(task[t].reqH) :
         /\ linkErr' = LinkErrAfter(task[t].reqH, out)
         /\ hlog' = Append(hlog, Ev("read_name", task[t].reqH))
         /\ ConnectReturnOn(t, ClientAfterRead(out), out)
    /\ UNCHANGED <<store, nOpened, linkUp, authDone, opsLeft, coordVars, timeVars, thermostat>>

\* connect() has returned or raised: control is back in the calling code
connect_return(t) ==
    /\ cur = t
    /\ task[t].pc = "c_ret"
    /\ task' = Set(t, [task[t] EXCEPT !.pc = IF task[t].exc = "none"
                                              THEN AfterEnsure(task[t].op)
                                              ELSE AfterConnectRaise(task[t].op),
                                       !.sid = None])
    /\ hlog' = <<>>
    /\ UNCHANGED <<sessionVars, linkVars, cur, opsLeft, coordVars, timeVars, thermostat>>

\* ---------------------------------------------------------------- cleanup
cleanup(t) ==
    /\ cur = t
    /\ task[t].pc = "cleanup"
    /\ IF ClientConnected
       THEN /\ task' = Set(t, [task[t] EXCEPT !.pc = "cl_disconnect", !.reqH = client])
            /\ cur' = 0
            /\ UNCHANGED client
       ELSE /\ client' = None
            /\ task' = Set(t, [task[t] EXCEPT !.pc = "ret"])
            /\ cur' = t
    /\ UNCHANGED <<connect_lock, store, linkVars, hlog, opsLeft, coordVars, timeVars, thermostat>>

\* disconnect() answered (an exception is logged); finally: self.client = None
cleanup_disconnect(t) ==
    /\ cur = 0
    /\ task[t].pc = "cl_disconnect"
    /\ \E out \in {"ok", "other"} :
         linkUp' = IF out = "ok" THEN linkUp \ {task[t].reqH} ELSE linkUp
    /\ client' = None
    /\ task' = Set(t, [task[t] EXCEPT !.pc = "ret", !.reqH = None])
    /\ cur' = t
    /\ UNCHANGED <<connect_lock, store, nOpened, authDone,
                   linkErr, hlog, opsLeft, coordVars, timeVars, thermostat>>

\* ------------------------------------------------------------- boost
\* the eight bytes write_boost sends (offset_degrees is given in hundredths
\* of a degree): flag, int(offset_degrees * 100), percentage, duration, 0
BoostRecord(a) ==
    <<IF a.enabled THEN 1 ELSE 0>>
    \o ToBytesLESigned(IntTimes100(a.offset_degrees), 2)
    \o ToBytesLESigned(a.offset_percentage, 1)
    \o ToBytesLE(a.duration_minutes, 2)
    \o ToBytesLE(0, 2)

\* what read_boost makes of the eight bytes (offset_raw / 100.0 is kept in
\* hundredths)
ParseBoost(data) ==
    [k |-> "boost", enabled |-> data[1] # 0,
     offset_degrees |-> FromBytesLESigned(Slice(data, 1, 3)),
     offset_percentage |-> FromBytesLESigned(<<data[4]>>),
     setpoint_minutes |-> FromBytesLE(Slice(data, 4, 6)),
     remaining_minutes |-> FromBytesLE(Slice(data, 6, 8))]

\* the range checks of write_boost
BoostArgsValid(a) ==
    /\ -2000 <= a.offset_degrees /\ a.offset_degrees <= 2000
    /\ -100 <= a.offset_percentage /\ a.offset_percentage <= 100
    /\ 0 <= a.duration_minutes /\ a.duration_minutes <= 65535

BoostArgs(enabled, degrees, pct, minutes) ==
    [enabled |-> enabled, offset_degrees |-> degrees,
     offset_percentage |-> pct, duration_minutes |-> minutes]

\* boost settings within the documented ranges, and an offset of 21 degrees
BoostInputs == {BoostArgs(TRUE, 230, 10, 60), BoostArgs(TRUE, -150, -20, 0),
                BoostArgs(FALSE, 200, 0, 65535), BoostArgs(TRUE, 2100, 0, 60)}

\* a caller invokes write_boost
StartBoost(t, a) ==
    /\ cur = 0
    /\ task[t].pc \in {"idle", "done"}
    /\ opsLeft > 0
    /\ opsLeft' = opsLeft - 1
    /\ task' = Set(t, [IdleTask EXCEPT !.pc = "write_boost", !.op = "write_boost",
                                      !.args = a])
    /\ cur' = t
    /\ UNCHANGED <<sessionVars, linkVars, hlog, coordVars, timeVars, thermostat>>

\* not connected: log and return None, no connect attempt
read_boost(t) ==
    /\ cur = t
    /\ task[t].pc = "read_boost"
    /\ IF ClientConnected
       THEN /\ task' = Set(t, [task[t] EXCEPT !.pc = "rb_read", !.reqH = client])
            /\ cur' = 0
       ELSE /\ task' = Set(t, [task[t] EXCEPT !.pc = "ret", !.res = [st |-> "none", val |-> NoneV]])
            /\ cur' = t
    /\ UNCHANGED <<sessionVars, linkVars, hlog, opsLeft, coordVars, timeVars, thermostat>>

\* the read is answered with the record the device holds, which is parsed;
\* a BleakError clears self.client; every exception returns None
read_boost_done(t) ==
    /\ cur = 0
    /\ task[t].pc = "rb_read"
    /\ \E out \in Outcomes(task[t].reqH) :
         /\ linkErr' = LinkErrAfter(task[t].reqH, out)
         /\ client' = ClientAfterRead(out)
         /\ task' = Set(t, [task[t] EXCEPT !.pc = "ret", !.reqH = None,
                               !.gerr = @ \/ out = "bleak",
                               !.raw = IF out = "ok" THEN thermostat.boost ELSE @,
                               !.res = [st |-> "none",
                                        val |-> IF out = "ok"
                                                THEN ParseBoost(thermostat.boost)
                                                ELSE NoneV]])
    /\ cur' = t
    /\ UNCHANGED <<connect_lock, store, nOpened, linkUp,
                   authDone, hlog, opsLeft, coordVars, timeVars, thermostat>>

\* not connected returns False; a value out of range raises ValueError,
\* which returns False; else the record is made and the write is issued
write_boost(t) ==
    /\ cur = t
    /\ task[t].pc = "write_boost"
    /\ IF ~ClientConnected \/ ~BoostArgsValid(task[t].args)
       THEN /\ task' = Set(t, [task[t] EXCEPT !.pc = "ret",
                                             !.res = [st |-> "none", val |-> FalseV]])
            /\ cur' = t
       ELSE /\ task' = Set(t, [task[t] EXCEPT !.pc = "wb_write", !.reqH = client,
                                             !.data = BoostRecord(task[t].args)])
            /\ cur' = 0
    /\ UNCHANGED <<sessionVars, linkVars, hlog, opsLeft, coordVars, timeVars, thermostat>>

\* the write is answered: return True; a BleakError clears self.client and
\* returns None, another exception returns False
write_boost_done(t) ==
    /\ cur = 0
    /\ task[t].pc = "wb_write"
    /\ \E out \in Outcomes(task[t].reqH) :
         /\ linkErr' = LinkErrAfter(task[t].reqH, out)
         /\ client' = ClientAfterRead(out)
         /\ task' = Set(t, [task[t] EXCEPT
                              !.pc = "ret", !.reqH = None,
                              !.gerr = @ \/ out = "bleak",
                              !.wlog = IF out = "ok"
                                       THEN Append(@, Written("BOOST_UUID", task[t].data))
                                       ELSE @,
                              !.res = [st |-> "none",
                                       val |-> CASE out = "ok" -> TrueV
                                                 [] out = "bleak" -> NoneV
                                                 [] OTHER -> FalseV]])
         /\ thermostat' = IF out = "ok"
                          THEN [thermostat EXCEPT !.boost = task[t].data]
                          ELSE thermostat
    /\ cur' = t
    /\ UNCHANGED <<connect_lock, store, nOpened, linkUp,
                   authDone, hlog, opsLeft, coordVars, timeVars>>

\* ------------------------------------------------ read_split_characteristic
\* combined_data = bytearray(); the first read_gatt_char is issued on
\* self.client (None raises AttributeError, which the except BleakError
\* clause does not catch)
read_split_characteristic(t) ==
    /\ cur = t
    /\ task[t].pc = "rs_loop"
    /\ IF client = None
       THEN /\ task' = Set(t, [task[t] EXCEPT !.pc = AfterReadSplit(task[t].op),
                                             !.exc = "other"])
            /\ cur' = t
       ELSE /\ task' = Set(t, [task[t] EXCEPT !.pc = "rs_read", !.reqH = client,
                                             !.buf = <<>>, !.nfr = 0,
                                             !.frames = <<>>,
                                             !.reads = @ + 1])
            /\ cur' = 0
    /\ UNCHANGED <<sessionVars, linkVars, hlog, opsLeft, coordVars, timeVars, thermostat>>

\* a packet arrives: extend combined_data by packet[1:], stop on an empty
\* packet or on the final flag and return the data without trailing zeros,
\* else read again (on a client cleared meanwhile the attribute access
\* raises after the packet was added); a BleakError clears self.client and
\* is re-raised
read_gatt_char(t) ==
    /\ cur = 0
    /\ task[t].pc = "rs_read"
    /\ \E out \in Outcomes(task[t].reqH) :
         /\ linkErr' = LinkErrAfter(task[t].reqH, out)
         /\ client' = ClientAfterRead(out)
         /\ IF out # "ok"
            THEN /\ task' = Set(t, [task[t] EXCEPT !.pc = AfterReadSplit(task[t].op),
                                                  !.exc = out, !.reqH = None,
                                                  !.gerr = @ \/ out = "bleak"])
                 /\ cur' = t
            ELSE \E packet \in DeviceReplies(task[t].uuid, task[t].nfr) :
                   LET combined == IF packet = <<>> THEN task[t].buf
                                   ELSE task[t].buf \o Tail(packet)
                       more_data == packet # <<>> /\ ~BitSet(packet[1], FinalFlag)
                   IN IF more_data
                      THEN IF client = None
                           THEN /\ task' = Set(t, [task[t] EXCEPT
                                                   !.pc = AfterReadSplit(task[t].op),
                                                   !.exc = "other", !.reqH = None,
                                                   !.buf = combined, !.nfr = @ + 1,
                                                   !.frames = Append(@, packet)])
                                /\ cur' = t
                           ELSE /\ task' = Set(t, [task[t] EXCEPT !.buf = combined,
                                                   !.nfr = @ + 1, !.reqH = client,
                                                   !.frames = Append(@, packet)])
                                /\ cur' = 0
                      ELSE /\ task' = Set(t, [task[t] EXCEPT
                                              !.pc = AfterReadSplit(task[t].op),
                                              !.raw = Rstrip(combined), !.buf = <<>>,
                                              !.reqH = None,
                                              !.frames = Append(@, packet),
                                              !.res = [st |-> "none",
                                                       val |-> [k |-> "bytes",
                                                                b |-> Rstrip(combined)]]])
                           /\ cur' = t
    /\ UNCHANGED <<connect_lock, store, nOpened, linkUp,
                   authDone, hlog, opsLeft, coordVars, timeVars, thermostat>>

\* ------------------------------------------------------- real-time coordinator
\* faulty variant: a reading exactly max_age old is still served
CacheFreshInclusive(now, max_age) ==
    /\ Truthy(last_data)
    /\ last_update # None
    /\ now - last_update <= max_age

\* self._last_data and self._last_update and now - self._last_update < max_age
CacheFresh(now, max_age) ==
    /\ Truthy(last_data)
    /\ last_update # None
    /\ now - last_update < max_age

\* faulty variant: a failed read drops the cached value and keeps its timestamp
CacheValueClearedAfterFailure == <<NoneV, last_update>>

\* faulty variant: a failed read wipes the cached reading
CacheClearedAfterFailure == <<NoneV, None>>

\* `if raw_data:` is false or the read raised: nothing is assigned
CacheAfterFailure == <<last_data, last_update>>

\* async with self._update_lock:
get_real_time_data(t) ==
    /\ cur = t
    /\ task[t].pc = "get_real_time_data"
    /\ IF LockFree(update_lock)
       THEN /\ update_lock' = [update_lock EXCEPT !.owner = t]
            /\ task' = Set(t, [task[t] EXCEPT !.pc = "g_locked"])
            /\ cur' = t
       ELSE /\ update_lock' = Enqueue(update_lock, t)
            /\ task' = Set(t, [task[t] EXCEPT !.pc = "g_lock"])
            /\ cur' = 0
    /\ UNCHANGED <<sessionVars, linkVars, hlog, opsLeft, last_data, last_update, failed,
                   timeVars, thermostat>>

update_acquired(t) ==
    /\ cur = 0
    /\ task[t].pc = "g_lock"
    /\ update_lock.owner = 0
    /\ update_lock.waiters # <<>>
    /\ Head(update_lock.waiters) = t
    /\ update_lock' = Grant(update_lock, t)
    /\ task' = Set(t, [task[t] EXCEPT !.pc = "g_locked"])
    /\ cur' = t
    /\ UNCHANGED <<sessionVars, linkVars, hlog, opsLeft, last_data, last_update, failed,
                   timeVars, thermostat>>

\* now = time.time(); a fresh cached value is returned, else the device is read
get_locked(t) ==
    /\ cur = t
    /\ task[t].pc = "g_locked"
    /\ IF CacheFresh(clock, task[t].max_age)
       THEN /\ update_lock' = Release(update_lock)
            /\ task' = Set(t, [task[t] EXCEPT !.pc = "ret", !.now = clock,
                                             !.res = [st |-> "none", val |-> last_data]])
       ELSE /\ task' = Set(t, [task[t] EXCEPT !.pc = "ensure_connection", !.now = clock])
            /\ UNCHANGED update_lock
    /\ failed' = NoFailure
    /\ UNCHANGED <<sessionVars, linkVars, hlog, cur, opsLeft, last_data, last_update, timeVars, thermostat>>

\* read_split_characteristic returned raw_data or raised; leaving the
\* `async with` block releases the lock either way
get_after(t) ==
    /\ cur = t
    /\ task[t].pc = "g_after"
    /\ update_lock' = Release(update_lock)
    /\ IF task[t].exc = "none" /\ task[t].raw # <<>>
       THEN /\ last_data' = parse_real_time_indication(task[t].raw)
            /\ last_update' = task[t].now
            /\ failed' = NoFailure
            /\ task' = Set(t, [task[t] EXCEPT !.pc = "ret",
                                  !.res = [st |-> "none",
                                           val |-> parse_real_time_indication(task[t].raw)]])
       ELSE /\ task' = Set(t, [task[t] EXCEPT !.pc = "ret",
                                  !.res = [st |-> "none", val |-> NoneV]])
            /\ failed' = [max_age |-> task[t].max_age,
                          waiters |-> {u \in Tasks : task[u].pc = "g_lock"}]
            /\ last_data' = CacheAfterFailure[1]
            /\ last_update' = CacheAfterFailure[2]
    /\ UNCHANGED <<sessionVars, linkVars, hlog, cur, opsLeft, timeVars, thermostat>>

\* ----------------------------------------------- write_split_characteristic
\* chunk_size = len(data) // 2 + (len(data) % 2)
ChunkSize(data) == (Len(data) \div 2) + (Len(data) % 2)

\* header of the packet of current_chunk
ChunkHeader(current_chunk) == IF current_chunk = 0 THEN 128 ELSE FinalFlag

\* packet = bytearray([header]) + data[start_pos:end_pos]
ChunkPacket(data, current_chunk) ==
    LET start_pos == current_chunk * ChunkSize(data)
        end_pos == IF start_pos + ChunkSize(data) < Len(data)
                   THEN start_pos + ChunkSize(data) ELSE Len(data)
    IN Frame(ChunkHeader(current_chunk), Slice(data, start_pos, end_pos))



\* mtu_size = self.client.mtu_size raises AttributeError on a None client
\* (not caught by except BleakError); else the first packet is written
write_split_characteristic(t) ==
    /\ cur = t
    /\ task[t].pc = "ws_loop"
    /\ IF client = None
       THEN /\ task' = Set(t, [task[t] EXCEPT !.pc = AfterWriteSplit(task[t].op), !.exc = "other"])
            /\ cur' = t
       ELSE /\ task' = Set(t, [task[t] EXCEPT !.pc = "ws_write", !.reqH = client,
                                             !.chunk = 0, !.wr = <<>>])
            /\ cur' = 0
    /\ UNCHANGED <<sessionVars, linkVars, hlog, opsLeft, coordVars, timeVars, thermostat>>

\* write_gatt_char answered: on success sleep 0.1 s; a BleakError clears
\* self.client and is re-raised
write_gatt_char(t) ==
    /\ cur = 0
    /\ task[t].pc = "ws_write"
    /\ \E out \in Outcomes(task[t].reqH) :
         /\ linkErr' = LinkErrAfter(task[t].reqH, out)
         /\ client' = ClientAfterRead(out)
         /\ IF out = "ok"
            THEN /\ task' = Set(t, [task[t] EXCEPT !.pc = "ws_sleep", !.reqH = None,
                                       !.wr = Append(@, ChunkPacket(task[t].data,
                                                                    task[t].chunk)),
                                       !.wlog = Append(@, Written(task[t].uuid,
                                                  ChunkPacket(task[t].data,
                                                              task[t].chunk)))])
                 /\ thermostat' = DeviceAfterFrame(thermostat, task[t].uuid,
                                               ChunkPacket(task[t].data, task[t].chunk))
                 /\ cur' = 0
            ELSE /\ task' = Set(t, [task[t] EXCEPT !.pc = AfterWriteSplit(task[t].op),
                                                  !.exc = out, !.reqH = None,
                                                  !.gerr = @ \/ out = "bleak"])
                 /\ thermostat' = thermostat
                 /\ cur' = t
    /\ UNCHANGED <<connect_lock, store, nOpened, linkUp,
                   authDone, hlog, opsLeft, coordVars, timeVars>>

\* the settle delay is over: write the second packet, or return True
write_split_slept(t) ==
    /\ cur = 0
    /\ task[t].pc = "ws_sleep"
    /\ IF task[t].chunk = 0
       THEN IF client = None
            THEN /\ task' = Set(t, [task[t] EXCEPT !.pc = AfterWriteSplit(task[t].op), !.exc = "other"])
                 /\ cur' = t
            ELSE /\ task' = Set(t, [task[t] EXCEPT !.pc = "ws_write", !.reqH = client,
                                                  !.chunk = 1])
                 /\ cur' = 0
       ELSE /\ task' = Set(t, [task[t] EXCEPT !.pc = AfterWriteSplit(task[t].op),
                                             !.res = [st |-> "none", val |-> TrueV]])
            /\ cur' = t
    /\ UNCHANGED <<sessionVars, linkVars, hlog, opsLeft, coordVars, timeVars, thermostat>>

\* ------------------------------------------------------ write_calendar_day
\* the checks and the record are made without suspending: not connected, a
\* day outside 1..7, more than six programs or a value that does not fit its
\* bytes return False; else the day number is written to the control
\* characteristic
write_calendar_day(t) ==
    /\ cur = t
    /\ task[t].pc = "write_calendar_day"
    /\ IF \/ ~ClientConnected
          \/ ~(1 <= task[t].day /\ task[t].day <= 7)
          \/ Len(task[t].programs) > MaxPrograms
          \/ \E i \in 1..Len(task[t].programs) : ~ProgramEncodable(task[t].programs[i])
       THEN /\ task' = Set(t, [task[t] EXCEPT !.pc = "ret",
                                             !.res = [st |-> "none", val |-> FalseV]])
            /\ cur' = t
       ELSE /\ task' = Set(t, [task[t] EXCEPT
                                 !.pc = "wc_select", !.reqH = client,
                                 !.data = CalendarRecord(task[t].day, task[t].programs)])
            /\ cur' = 0
    /\ UNCHANGED <<sessionVars, linkVars, hlog, opsLeft, coordVars, timeVars, thermostat>>

\* except BleakError: self.client = None; return False
\* except Exception: return False
CalendarWriteFailed(t, out) ==
    [task[t] EXCEPT !.pc = "ret", !.exc = "none", !.reqH = None,
                    !.gerr = @ \/ out = "bleak",
                    !.res = [st |-> "none", val |-> FalseV]]

\* the day selection is answered: on success write_split_characteristic is
\* called with the record, which begins with ensure_connection
write_calendar_select(t) ==
    /\ cur = 0
    /\ task[t].pc = "wc_select"
    /\ \E out \in Outcomes(task[t].reqH) :
         /\ linkErr' = LinkErrAfter(task[t].reqH, out)
         /\ client' = ClientAfterRead(out)
         /\ IF out = "ok"
            THEN /\ task' = Set(t, [task[t] EXCEPT
                                      !.pc = "ensure_connection", !.reqH = None,
                                      !.uuid = "CALENDAR_DAY_UUID",
                                      !.wlog = Append(@, Written("CALENDAR_CONTROL_UUID",
                                                                 <<task[t].day>>))])
                 /\ thermostat' = DeviceAfterControl(thermostat, task[t].day)
            ELSE /\ task' = Set(t, CalendarWriteFailed(t, out))
                 /\ thermostat' = thermostat
    /\ cur' = t
    /\ UNCHANGED <<connect_lock, store, nOpened, linkUp,
                   authDone, hlog, opsLeft, coordVars, timeVars>>

\* write_split_characteristic returned or raised: an exception ends the call
\* with False, else the call sleeps 0.2 s
write_calendar_after(t) ==
    /\ cur = t
    /\ task[t].pc = "wc_after"
    /\ IF task[t].exc # "none"
       THEN /\ task' = Set(t, CalendarWriteFailed(t, "none"))
            /\ client' = ClientAfterRead(task[t].exc)
            /\ cur' = t
       ELSE /\ task' = Set(t, [task[t] EXCEPT !.pc = "wc_sleep"])
            /\ client' = client
            /\ cur' = 0
    /\ UNCHANGED <<connect_lock, store, linkVars, hlog, opsLeft, coordVars,
                   timeVars, thermostat>>

\* the delay is over: 0 is written to the control characteristic (on a None
\* client the attribute access raises and the call returns False)
write_calendar_slept(t) ==
    /\ cur = 0
    /\ task[t].pc = "wc_sleep"
    /\ IF client = None
       THEN /\ task' = Set(t, CalendarWriteFailed(t, "other"))
            /\ cur' = t
       ELSE /\ task' = Set(t, [task[t] EXCEPT !.pc = "wc_commit", !.reqH = client])
            /\ cur' = 0
    /\ UNCHANGED <<sessionVars, linkVars, hlog, opsLeft, coordVars, timeVars, thermostat>>

\* the store request is answered: return True, or False on an exception
write_calendar_commit(t) ==
    /\ cur = 0
    /\ task[t].pc = "wc_commit"
    /\ \E out \in Outcomes(task[t].reqH) :
         /\ linkErr' = LinkErrAfter(task[t].reqH, out)
         /\ client' = ClientAfterRead(out)
         /\ IF out = "ok"
            THEN /\ task' = Set(t, [task[t] EXCEPT
                                      !.pc = "ret", !.reqH = None,
                                      !.wlog = Append(@, Written("CALENDAR_CONTROL_UUID",
                                                                 <<0>>)),
                                      !.res = [st |-> "none", val |-> TrueV]])
                 /\ thermostat' = DeviceAfterControl(thermostat, 0)
            ELSE /\ task' = Set(t, CalendarWriteFailed(t, out))
                 /\ thermostat' = thermostat
    /\ cur' = t
    /\ UNCHANGED <<connect_lock, store, nOpened, linkUp,
                   authDone, hlog, opsLeft, coordVars, timeVars>>

\* ------------------------------------------------------- read_calendar_day
\* not connected or a day outside 1..7 returns None; else the day number is
\* written to the control characteristic
read_calendar_day(t) ==
    /\ cur = t
    /\ task[t].pc = "read_calendar_day"
    /\ IF ~ClientConnected \/ ~(1 <= task[t].day /\ task[t].day <= 7)
       THEN /\ task' = Set(t, [task[t] EXCEPT !.pc = "ret",
                                             !.res = [st |-> "none", val |-> NoneV]])
            /\ cur' = t
       ELSE /\ task' = Set(t, [task[t] EXCEPT !.pc = "rc_select", !.reqH = client])
            /\ cur' = 0
    /\ UNCHANGED <<sessionVars, linkVars, hlog, opsLeft, coordVars, timeVars, thermostat>>

\* except BleakError: self.client = None; return None
\* except Exception: return None
CalendarReadFailed(t, out) ==
    [task[t] EXCEPT !.pc = "ret", !.exc = "none", !.reqH = None,
                    !.gerr = @ \/ out = "bleak",
                    !.res = [st |-> "none", val |-> NoneV]]

\* the day selection is answered: on success the call sleeps 0.2 s
read_calendar_select(t) ==
    /\ cur = 0
    /\ task[t].pc = "rc_select"
    /\ \E out \in Outcomes(task[t].reqH) :
         /\ linkErr' = LinkErrAfter(task[t].reqH, out)
         /\ client' = ClientAfterRead(out)
         /\ IF out = "ok"
            THEN /\ task' = Set(t, [task[t] EXCEPT
                                      !.pc = "rc_sleep", !.reqH = None,
                                      !.wlog = Append(@, Written("CALENDAR_CONTROL_UUID",
                                                                 <<task[t].day>>))])
                 /\ thermostat' = DeviceAfterControl(thermostat, task[t].day)
                 /\ cur' = 0
            ELSE /\ task' = Set(t, CalendarReadFailed(t, out))
                 /\ thermostat' = thermostat
                 /\ cur' = t
    /\ UNCHANGED <<connect_lock, store, nOpened, linkUp,
                   authDone, hlog, opsLeft, coordVars, timeVars>>

\* the delay is over: read_split_characteristic(CALENDAR_DAY_UUID) is called,
\* which begins with ensure_connection
read_calendar_slept(t) ==
    /\ cur = 0
    /\ task[t].pc = "rc_sleep"
    /\ task' = Set(t, [task[t] EXCEPT !.pc = "ensure_connection",
                                     !.uuid = "CALENDAR_DAY_UUID"])
    /\ cur' = t
    /\ UNCHANGED <<sessionVars, linkVars, hlog, opsLeft, coordVars, timeVars, thermostat>>

\* read_split_characteristic returned or raised: an exception ends the call
\* with None, else the bytes are parsed into the day and its programs
read_calendar_after(t) ==
    /\ cur = t
    /\ task[t].pc = "rc_after"
    /\ IF task[t].exc # "none"
       THEN /\ task' = Set(t, CalendarReadFailed(t, "none"))
            /\ client' = ClientAfterRead(task[t].exc)
       ELSE /\ task' = Set(t, [task[t] EXCEPT
                                 !.pc = "ret",
                                 !.res = [st |-> "none",
                                          val |-> ParseCalendarDay(task[t].raw)]])
            /\ client' = client
    /\ UNCHANGED <<connect_lock, store, linkVars, hlog, cur, opsLeft, coordVars,
                   timeVars, thermostat>>

\* arguments of the calendar operations: a day in range and one out of
\* range; three enabled programs, two programs of which the last is a
\* disabled one with zero offsets, and seven programs
CalendarDays == {2, 8}
ThreePrograms == <<Program(6, 0, 8, 30, 200, 10, TRUE),
                   Program(12, 0, 13, 0, -150, -20, TRUE),
                   Program(20, 15, 22, 0, 230, 0, TRUE)>>
TwoPrograms == <<Program(6, 0, 8, 30, 200, 10, TRUE),
                 Program(9, 0, 10, 0, 0, 0, FALSE)>>
SevenPrograms == ThreePrograms \o ThreePrograms \o <<Program(23, 0, 23, 30, 100, 0, TRUE)>>
ProgramLists == {ThreePrograms, TwoPrograms, SevenPrograms}

StartCalendar(t, o, day, programs) ==
    /\ cur = 0
    /\ task[t].pc \in {"idle", "done"}
    /\ opsLeft > 0
    /\ opsLeft' = opsLeft - 1
    /\ task' = Set(t, [IdleTask EXCEPT !.pc = o, !.op = o, !.day = day,
                                      !.programs = programs])
    /\ cur' = t
    /\ UNCHANGED <<sessionVars, linkVars, hlog, coordVars, timeVars, thermostat>>

\* ------------------------------------------------------------ vacation time

\* the mode byte of the device's record (a record cut short has none)
DeviceMode(dev) ==
    IF Len(dev.vacation) >= VacationRecordLen
    THEN dev.vacation[VacationRecordLen] ELSE 0

\* the device stores a written vacation record but keeps its own mode byte
DeviceAfterVacation(dev, data) ==
    [dev EXCEPT !.vacation = SubSeq(data, 1, VacationRecordLen - 1)
                             \o <<DeviceMode(dev)>>]

\* datetime(2000 + b[0], b[1], b[2], b[3], b[4]) raises ValueError unless
\* the five bytes name a date and a time of day
ValidWallClock(b) ==
    /\ ValidDate(2000 + b[1], b[2], b[3], b[4])
    /\ b[5] \in 0..59

\* dt_util.as_utc(dt_util.as_local(datetime(...))), in Home Assistant's
\* default time zone (UTC): <<year, month, day, hour, minute>>
WallClock(b) == <<2000 + b[1], b[2], b[3], b[4], b[5]>>

\* bytes.hex(): two lowercase hexadecimal digits per byte
HexDigit(n) == IF n < 10 THEN 48 + n ELSE 87 + n
Hex(b) ==
    Str([i \in 1..(2 * Len(b)) |->
           HexDigit(IF i % 2 = 1 THEN b[(i + 1) \div 2] \div 16
                                 ELSE b[i \div 2] % 16)])

\* what read_vacation_time makes of the bytes read: None for fewer than 15
\* bytes and for bytes that name no date (the ValueError of datetime() is
\* caught), else the settings, offset_temperature in hundredths of a degree
ParseVacation(data) ==
    IF Len(data) < VacationRecordLen THEN NoneV
    ELSE IF ~ValidWallClock(Slice(data, 0, 5)) \/ ~ValidWallClock(Slice(data, 5, 10))
    THEN NoneV
    ELSE [k |-> "vacation",
          time_from |-> WallClock(Slice(data, 0, 5)),
          time_to |-> WallClock(Slice(data, 5, 10)),
          offset_temperature |-> FromBytesLESigned(Slice(data, 10, 12)),
          offset_percentage |-> FromBytesLESigned(<<data[13]>>),
          enabled |-> data[14] # 0,
          active |-> data[15] # 0,
          raw_data |-> Hex(data)]

\* current_active: the `active` entry of the settings read_vacation_time
\* returned, False when it returned None
CurrentActive(current_settings) ==
    IF current_settings = NoneV THEN FALSE ELSE current_settings.active

\* a wall-clock time is <<year, month, day, hour, minute>>
Before(a, b) ==
    \E i \in 1..5 : a[i] < b[i] /\ \A j \in 1..(i - 1) : a[j] = b[j]

\* the checks of write_vacation_time, made after the current settings were
\* read: both offsets and both years in range (offset_temperature is given
\* in hundredths of a degree)
VacationArgsValid(a) ==
    /\ -2000 <= a.offset_temperature /\ a.offset_temperature <= 2000
    /\ -100 <= a.offset_percentage /\ a.offset_percentage <= 100
    /\ 0 <= a.time_from[1] - 2000 /\ a.time_from[1] - 2000 <= 255
    /\ 0 <= a.time_to[1] - 2000 /\ a.time_to[1] - 2000 <= 255

\* data = bytearray(15): both times, the offsets, enabled, current_active
VacationRecord(a, current_active) ==
    <<a.time_from[1] - 2000>> \o Tail(a.time_from)
    \o <<a.time_to[1] - 2000>> \o Tail(a.time_to)
    \o ToBytesLESigned(IntTimes100(a.offset_temperature), 2)
    \o ToBytesLESigned(a.offset_percentage, 1)
    \o <<IF a.enabled THEN 1 ELSE 0>>
    \o <<IF current_active THEN 1 ELSE 0>>

\* write_vacation_time begins with
\* current_settings = await self.read_vacation_time()
write_vacation_time(t) ==
    /\ cur = t
    /\ task[t].pc = "write_vacation_time"
    /\ task' = Set(t, [task[t] EXCEPT !.pc = "read_vacation_time"])
    /\ cur' = t
    /\ UNCHANGED <<sessionVars, linkVars, hlog, opsLeft, coordVars, timeVars, thermostat>>

\* read_vacation_time, called by an entity or by write_vacation_time: the
\* read is issued on self.client without a connection check; on a None
\* client the attribute access raises and None is returned, and in
\* write_vacation_time the ValueError of a range check or the same
\* attribute access at its write then returns False
read_vacation_time(t) ==
    /\ cur = t
    /\ task[t].pc = "read_vacation_time"
    /\ IF client = None
       THEN /\ task' = Set(t, [task[t] EXCEPT
                                 !.pc = "ret",
                                 !.res = [st |-> "none",
                                          val |-> IF task[t].op = "read_vacation_time"
                                                  THEN NoneV ELSE FalseV]])
            /\ cur' = t
       ELSE /\ task' = Set(t, [task[t] EXCEPT !.pc = "wv_read", !.reqH = client])
            /\ cur' = 0
    /\ UNCHANGED <<sessionVars, linkVars, hlog, opsLeft, coordVars, timeVars, thermostat>>

\* the read is answered: the settings, or None after any exception (a
\* BleakError clears self.client); an entity's call returns them; in
\* write_vacation_time follow, without suspending: current_active, the
\* range checks (ValueError: return False), the record, and the write is
\* issued on self.client
read_vacation_answered(t) ==
    /\ cur = 0
    /\ task[t].pc = "wv_read"
    /\ \E out \in Outcomes(task[t].reqH) :
         LET current_settings == IF out = "ok"
                                 THEN ParseVacation(thermostat.vacation)
                                 ELSE NoneV
         IN
         /\ linkErr' = LinkErrAfter(task[t].reqH, out)
         /\ client' = ClientAfterRead(out)
         /\ IF task[t].op = "read_vacation_time"
            THEN /\ task' = Set(t, [task[t] EXCEPT
                                      !.pc = "ret", !.reqH = None,
                                      !.gerr = @ \/ out = "bleak",
                                      !.res = [st |-> "none", val |-> current_settings]])
                 /\ cur' = t
            ELSE IF ~VacationArgsValid(task[t].args) \/ client' = None
            THEN /\ task' = Set(t, [task[t] EXCEPT
                                      !.pc = "ret", !.reqH = None,
                                      !.gerr = @ \/ out = "bleak",
                                      !.res = [st |-> "none", val |-> FalseV]])
                 /\ cur' = t
            ELSE /\ task' = Set(t, [task[t] EXCEPT
                                      !.pc = "wv_write", !.reqH = client',
                                      !.gerr = @ \/ out = "bleak",
                                      !.data = VacationRecord(task[t].args,
                                                  CurrentActive(current_settings))])
                 /\ cur' = 0
    /\ UNCHANGED <<connect_lock, store, nOpened, linkUp,
                   authDone, hlog, opsLeft, coordVars, timeVars, thermostat>>

\* the write is answered: return True; a BleakError clears self.client and
\* returns None, another exception returns False
write_vacation_written(t) ==
    /\ cur = 0
    /\ task[t].pc = "wv_write"
    /\ \E out \in Outcomes(task[t].reqH) :
         /\ linkErr' = LinkErrAfter(task[t].reqH, out)
         /\ client' = ClientAfterRead(out)
         /\ task' = Set(t, [task[t] EXCEPT
                              !.pc = "ret", !.reqH = None,
                              !.gerr = @ \/ out = "bleak",
                              !.wlog = IF out = "ok"
                                       THEN Append(@, Written("VACATION_TIME_UUID",
                                                              task[t].data))
                                       ELSE @,
                              !.res = [st |-> "none",
                                       val |-> CASE out = "ok" -> TrueV
                                                 [] out = "bleak" -> NoneV
                                                 [] OTHER -> FalseV]])
         /\ thermostat' = IF out = "ok"
                          THEN DeviceAfterVacation(thermostat, task[t].data)
                          ELSE thermostat
    /\ cur' = t
    /\ UNCHANGED <<connect_lock, store, nOpened, linkUp,
                   authDone, hlog, opsLeft, coordVars, timeVars>>

\* arguments of write_vacation_time: a period with offsets in range (enabled
\* or not), a period that ends before it starts, a temperature offset of
\* 25 degrees
VacationArgs(from, to, temp, pct, enabled) ==
    [time_from |-> from, time_to |-> to, offset_temperature |-> temp,
     offset_percentage |-> pct, enabled |-> enabled]
JulyFirst == <<2027, 7, 1, 0, 0>>
AugustFirst == <<2027, 8, 1, 12, 30>>
VacationInputs ==
    {VacationArgs(JulyFirst, AugustFirst, -500, -20, TRUE),
     VacationArgs(JulyFirst, AugustFirst, -500, -20, FALSE),
     VacationArgs(AugustFirst, JulyFirst, -500, -20, TRUE),
     VacationArgs(JulyFirst, AugustFirst, 2500, 0, TRUE)}

StartVacation(t, a) ==
    /\ cur = 0
    /\ task[t].pc \in {"idle", "done"}
    /\ opsLeft > 0
    /\ opsLeft' = opsLeft - 1
    /\ task' = Set(t, [IdleTask EXCEPT !.pc = "write_vacation_time",
                                      !.op = "write_vacation_time", !.args = a])
    /\ cur' = t
    /\ UNCHANGED <<sessionVars, linkVars, hlog, coordVars, timeVars, thermostat>>

\* the thermostat switches its vacation mode on or off by its own clock,
\* at any time
VacationMode(b) ==
    /\ cur = 0
    /\ Len(thermostat.vacation) >= VacationRecordLen
    /\ thermostat.vacation[VacationRecordLen] # b
    /\ thermostat' = [thermostat EXCEPT !.vacation[VacationRecordLen] = b]
    /\ UNCHANGED <<sessionVars, linkVars, hlog, task, cur, opsLeft, coordVars, timeVars>>

\* ------------------------------------------------- decoders and encoders
\* live-status records handed to parse_real_time_indication: a regular one,
\* the bytes [0xC8,0x00, 50, 0xC8,0x00, 0x00,0x00, 1, 0x00,0x00, 2, 2, 0,...],
\* one whose room and floor temperature are 0x7FFF, and a short one
RecordC8 == <<200, 0, 50, 200, 0, 0, 0, 1, 0, 0, 2, 2, 0, 0, 0, 0, 0, 0, 0, 0>>
RecordUnset == <<200, 0, 50, 255, 127, 255, 127, 0, 0, 0, 0, 0, 1, 2, 0, 0, 0, 0, 0, 50>>
LiveRecords == {RecordA, RecordC8, RecordUnset, <<200, 0, 50>>}

\* a caller hands a reassembled record to the parser
StartParse(t, data) ==
    /\ cur = 0
    /\ task[t].pc \in {"idle", "done"}
    /\ opsLeft > 0
    /\ opsLeft' = opsLeft - 1
    /\ task' = Set(t, [IdleTask EXCEPT !.pc = "parse_real_time_indication",
                                      !.op = "parse_real_time_indication",
                                      !.raw = data])
    /\ cur' = t
    /\ UNCHANGED <<sessionVars, linkVars, hlog, coordVars, timeVars, thermostat>>

parse_indication(t) ==
    /\ cur = t
    /\ task[t].pc = "parse_real_time_indication"
    /\ task' = Set(t, [task[t] EXCEPT
                         !.pc = "ret",
                         !.res = [st |-> "none",
                                  val |-> parse_real_time_indication(task[t].raw)]])
    /\ UNCHANGED <<sessionVars, linkVars, hlog, cur, opsLeft, coordVars, timeVars,
                   thermostat>>

\* ------------------------------------------------------ history reads
\* a caller invokes read_monitoring_data or read_power_consumption, which
\* begin with read_split_characteristic of their characteristic
StartHistory(t, o) ==
    /\ cur = 0
    /\ task[t].pc \in {"idle", "done"}
    /\ opsLeft > 0
    /\ opsLeft' = opsLeft - 1
    /\ task' = Set(t, [IdleTask EXCEPT
                         !.pc = "ensure_connection", !.op = o,
                         !.uuid = IF o = "read_monitoring_data"
                                  THEN "MONITORING_DATA_UUID"
                                  ELSE "REAL_TIME_INDICATION_POWER_CONSUMPTION_UUID"])
    /\ cur' = t
    /\ UNCHANGED <<sessionVars, linkVars, hlog, coordVars, timeVars, thermostat>>

\* except BleakError: self.client = None; return None
\* except Exception: return None
HistoryReadFailed(t, out) ==
    [task[t] EXCEPT !.pc = "ret", !.exc = "none",
                    !.gerr = @ \/ out = "bleak",
                    !.res = [st |-> "none", val |-> NoneV]]

\* read_split_characteristic returned or raised: an exception ends the call
\* with None, else the bytes are decoded
read_monitoring_data(t) ==
    /\ cur = t
    /\ task[t].pc = "rm_after"
    /\ IF task[t].exc # "none"
       THEN /\ task' = Set(t, HistoryReadFailed(t, "none"))
            /\ client' = ClientAfterRead(task[t].exc)
       ELSE /\ task' = Set(t, [task[t] EXCEPT
                                 !.pc = "ret",
                                 !.res = [st |-> "none",
                                          val |-> ParseMonitoring(task[t].raw)]])
            /\ client' = client
    /\ UNCHANGED <<connect_lock, store, linkVars, hlog, cur, opsLeft, coordVars,
                   timeVars, thermostat>>

read_power_consumption(t) ==
    /\ cur = t
    /\ task[t].pc = "rp_after"
    /\ IF task[t].exc # "none"
       THEN /\ task' = Set(t, HistoryReadFailed(t, "none"))
            /\ client' = ClientAfterRead(task[t].exc)
       ELSE /\ task' = Set(t, [task[t] EXCEPT
                                 !.pc = "ret",
                                 !.res = [st |-> "none",
                                          val |-> ParsePowerConsumption(task[t].raw)]])
            /\ client' = client
    /\ UNCHANGED <<connect_lock, store, linkVars, hlog, cur, opsLeft, coordVars,
                   timeVars, thermostat>>

\* ------------------------------------------------------------ force control
\* the mode numbers of EXTERNAL_CONTROL_MODES: off, temperature, temperature
\* change
ExternalControlModes == {1, 5, 6}

\* int(x * 10) of a float given in hundredths: truncation toward zero
IntTimes10(c) == IF c >= 0 THEN c \div 10 ELSE -((-c) \div 10)

\* max(lo, min(hi, x))
Clamp(lo, hi, x) == IF x < hi THEN (IF x > lo THEN x ELSE lo) ELSE hi

\* data[first:first + len(bytes)] = bytes on a bytearray (first is 0-based)
SetSlice(data, first, bytes) ==
    [i \in 1..Len(data) |-> IF first < i /\ i <= first + Len(bytes)
                            THEN bytes[i - first]
                            ELSE data[i]]

\* faulty variant: the mode byte is written whatever the mode is
ForceControlDataAnyMode(current, a) ==
    [SetSlice(SetSlice(current, 8,
                       ToBytesLE(IntTimes10(Clamp(500, 3500, a.temperature)), 2)),
              12, ToBytesLESigned(
                      IntTimes10(Clamp(-2000, 2000, a.temperature_offset)), 2))
       EXCEPT ![18] = a.mode]

\* the record write_force_control sends back: the record read, with the
\* temperature, the offset and, for a known mode, the mode replaced
\* (temperatures are given in hundredths of a degree)
ForceControlData(current, a) ==
    LET temp == SetSlice(current, 8,
                    ToBytesLE(IntTimes10(Clamp(500, 3500, a.temperature)), 2))
        offs == SetSlice(temp, 12,
                    ToBytesLESigned(
                        IntTimes10(Clamp(-2000, 2000, a.temperature_offset)), 2))
    IN  IF a.mode \in ExternalControlModes
        THEN [offs EXCEPT ![18] = a.mode]
        ELSE offs

ForceArgs(mode, temperature, temperature_offset) ==
    [mode |-> mode, temperature |-> temperature,
     temperature_offset |-> temperature_offset]

\* settings in range, beyond both ends of the ranges, and with a mode
\* number outside EXTERNAL_CONTROL_MODES
ForceInputs == {ForceArgs(5, 2150, 500), ForceArgs(3, 4000, -2500),
                ForceArgs(6, 200, -55), ForceArgs(1, 2057, 2500)}

\* what read_force_control makes of the record read (temperatures are
\* kept in tenths; the mode name, an entry of EXTERNAL_CONTROL_MODES, is
\* left out): the extended format, the legacy one-byte format, or None
ParseForceControl(data) ==
    IF Len(data) >= 19
    THEN [k |-> "force", enabled |-> data[18] \in {5, 6}, mode |-> data[18],
          temperature |-> FromBytesLE(Slice(data, 8, 10)),
          temperature_offset |-> FromBytesLESigned(Slice(data, 12, 14)),
          data_length |-> Len(data)]
    ELSE IF Len(data) = 1
    THEN [k |-> "force", enabled |-> FALSE, mode |-> 1,
          temperature |-> 200, temperature_offset |-> 0,
          data_length |-> 1]
    ELSE NoneV

\* a caller invokes write_force_control, which begins with
\* `await self.ensure_connection()`
StartForce(t, a) ==
    /\ cur = 0
    /\ task[t].pc \in {"idle", "done"}
    /\ opsLeft > 0
    /\ opsLeft' = opsLeft - 1
    /\ task' = Set(t, [IdleTask EXCEPT !.pc = "ensure_connection",
                                      !.op = "write_force_control", !.args = a])
    /\ cur' = t
    /\ UNCHANGED <<sessionVars, linkVars, hlog, coordVars, timeVars, thermostat>>

\* except BleakError: self.client = None; return False
\* except Exception: return False
ForceWriteFailed(t, out) ==
    [task[t] EXCEPT !.pc = "ret", !.exc = "none", !.reqH = None,
                    !.gerr = @ \/ out = "bleak",
                    !.res = [st |-> "none", val |-> FalseV]]

\* ensure_connection returned or raised: an exception and a client that is
\* not connected end the call with False; else the current record is read
write_force_control(t) ==
    /\ cur = t
    /\ task[t].pc = "wf_check"
    /\ IF task[t].exc # "none"
       THEN /\ task' = Set(t, ForceWriteFailed(t, "none"))
            /\ client' = ClientAfterRead(task[t].exc)
            /\ cur' = t
       ELSE IF ~ClientConnected
       THEN /\ task' = Set(t, ForceWriteFailed(t, "none"))
            /\ UNCHANGED <<client, cur>>
       ELSE /\ task' = Set(t, [task[t] EXCEPT !.pc = "wf_read", !.reqH = client])
            /\ cur' = 0
            /\ UNCHANGED client
    /\ UNCHANGED <<connect_lock, store, linkVars, hlog, opsLeft, coordVars,
                   timeVars, thermostat>>

\* the read is answered: nothing read or a record shorter than 19 bytes
\* returns False; else the modified record is written on self.client (on a
\* None client the attribute access raises and the call returns False)
write_force_current(t) ==
    /\ cur = 0
    /\ task[t].pc = "wf_read"
    /\ \E out \in Outcomes(task[t].reqH) :
         LET current == thermostat.force IN
         /\ linkErr' = LinkErrAfter(task[t].reqH, out)
         /\ client' = ClientAfterRead(out)
         /\ IF out # "ok"
            THEN /\ task' = Set(t, ForceWriteFailed(t, out))
                 /\ cur' = t
            ELSE IF Len(current) < 19 \/ client = None
            THEN /\ task' = Set(t, [ForceWriteFailed(t, out) EXCEPT !.raw = current])
                 /\ cur' = t
            ELSE /\ task' = Set(t, [task[t] EXCEPT
                                      !.pc = "wf_write", !.reqH = client,
                                      !.raw = current,
                                      !.data = ForceControlData(current, task[t].args)])
                 /\ cur' = 0
    /\ UNCHANGED <<connect_lock, store, nOpened, linkUp,
                   authDone, hlog, opsLeft, coordVars, timeVars, thermostat>>

\* the write is answered: the device holds the record and the call returns
\* True, or False after an exception (a BleakError also clears self.client)
write_force_written(t) ==
    /\ cur = 0
    /\ task[t].pc = "wf_write"
    /\ \E out \in Outcomes(task[t].reqH) :
         /\ linkErr' = LinkErrAfter(task[t].reqH, out)
         /\ client' = ClientAfterRead(out)
         /\ task' = Set(t, IF out = "ok"
                           THEN [task[t] EXCEPT
                                   !.pc = "ret", !.reqH = None,
                                   !.wlog = Append(@, Written("FORCE_CONTROL_UUID",
                                                              task[t].data)),
                                   !.res = [st |-> "none", val |-> TrueV]]
                           ELSE ForceWriteFailed(t, out))
         /\ thermostat' = IF out = "ok"
                          THEN [thermostat EXCEPT !.force = task[t].data]
                          ELSE thermostat
    /\ cur' = t
    /\ UNCHANGED <<connect_lock, store, nOpened, linkUp,
                   authDone, hlog, opsLeft, coordVars, timeVars>>

\* a failed read_force_control returns None
ForceReadFailed(t, out) ==
    [ForceWriteFailed(t, out) EXCEPT !.res = [st |-> "none", val |-> NoneV]]

\* ensure_connection returned or raised: an exception and a client that is
\* not connected end the call with None; else the record is read
read_force_control(t) ==
    /\ cur = t
    /\ task[t].pc = "rf_check"
    /\ IF task[t].exc # "none"
       THEN /\ task' = Set(t, ForceReadFailed(t, "none"))
            /\ client' = ClientAfterRead(task[t].exc)
            /\ cur' = t
       ELSE IF ~ClientConnected
       THEN /\ task' = Set(t, ForceReadFailed(t, "none"))
            /\ UNCHANGED <<client, cur>>
       ELSE /\ task' = Set(t, [task[t] EXCEPT !.pc = "rf_read", !.reqH = client])
            /\ cur' = 0
            /\ UNCHANGED client
    /\ UNCHANGED <<connect_lock, store, linkVars, hlog, opsLeft, coordVars,
                   timeVars, thermostat>>

\* the read is answered and the record is decoded
read_force_done(t) ==
    /\ cur = 0
    /\ task[t].pc = "rf_read"
    /\ \E out \in Outcomes(task[t].reqH) :
         LET data == thermostat.force IN
         /\ linkErr' = LinkErrAfter(task[t].reqH, out)
         /\ client' = ClientAfterRead(out)
         /\ task' = Set(t, IF out = "ok"
                           THEN [task[t] EXCEPT
                                   !.pc = "ret", !.reqH = None, !.raw = data,
                                   !.res = [st |-> "none",
                                            val |-> ParseForceControl(data)]]
                           ELSE ForceReadFailed(t, out))
    /\ cur' = t
    /\ UNCHANGED <<connect_lock, store, nOpened, linkUp,
                   authDone, hlog, opsLeft, coordVars, timeVars, thermostat>>

\* ------------------------------------------------------------ environment
\* wall-clock time passes
Tick(d) ==
    /\ cur = 0
    /\ ticks < MaxTicks
    /\ clock' = clock + d
    /\ ticks' = ticks + 1
    /\ UNCHANGED <<sessionVars, linkVars, hlog, task, cur, opsLeft, coordVars, thermostat>>

\* the link of a handle drops: is_connected turns False (only a handle the
\* manager or a pending request still refers to can be observed)
Referenced(h) == h = client \/ \E t \in Tasks : task[t].reqH = h

LinkLoss(h) ==
    /\ cur = 0
    /\ h \in linkUp
    /\ Referenced(h)
    /\ linkUp' = linkUp \ {h}
    /\ UNCHANGED <<sessionVars, nOpened, authDone, linkErr, hlog, task, cur, opsLeft,
                   coordVars, timeVars, thermostat>>

\* ---------------------------------------------------------------- settings
\* the single-characteristic settings: a reader is one GATT read whose
\* answer is parsed, a writer one GATT write of its encoded arguments
SettingReaders ==
    {"read_heating_mode", "read_adaptive_temp_control", "read_date_and_time",
     "read_daylight_saving", "read_floor_limits", "read_room_sensor_calibration",
     "read_software_revision", "read_hardware_revision", "read_heating_power",
     "read_floor_area", "read_energy_unit", "read_calendar_mode"}

\* set_heating_mode and set_adaptive_temp_control await their writer
SettingWriterOf(o) ==
    CASE o = "set_heating_mode" -> "write_heating_mode"
      [] o = "set_adaptive_temp_control" -> "write_adaptive_temp_control"
      [] OTHER -> o

SettingWriters ==
    {"write_heating_mode", "set_heating_mode", "write_adaptive_temp_control",
     "set_adaptive_temp_control", "write_date_and_time", "write_daylight_saving",
     "write_floor_limits", "write_room_sensor_calibration", "write_heating_power",
     "write_floor_area", "write_energy_unit", "write_calendar_mode"}

\* the characteristic of an operation
SettingUuid(o) ==
    CASE o \in {"read_heating_mode", "write_heating_mode", "set_heating_mode"}
           -> "HEATING_MODE_UUID"
      [] o \in {"read_adaptive_temp_control", "write_adaptive_temp_control",
                "set_adaptive_temp_control"}
           -> "ADAPTIVE_TEMPERATURE_CONTROL_UUID"
      [] o \in {"read_date_and_time", "write_date_and_time"} -> "DATE_AND_TIME_UUID"
      [] o \in {"read_daylight_saving", "write_daylight_saving"}
           -> "DAYLIGHT_SAVING_UUID"
      [] o \in {"read_floor_limits", "write_floor_limits"} -> "FLOOR_LIMITS_UUID"
      [] o \in {"read_room_sensor_calibration", "write_room_sensor_calibration"}
           -> "CALIBRATION_VALUE_FOR_ROOM_TEMPERATURE_UUID"
      [] o = "read_software_revision" -> "SOFTWARE_REVISION_UUID"
      [] o = "read_hardware_revision" -> "HARDWARE_REVISION_UUID"
      [] o \in {"read_heating_power", "write_heating_power"} -> "HEATING_POWER_UUID"
      [] o \in {"read_floor_area", "write_floor_area"} -> "FLOOR_AREA_UUID"
      [] o \in {"read_energy_unit", "write_energy_unit"} -> "ENERGY_UNIT_UUID"
      [] OTHER -> "CALENDAR_MODE_UUID"

\* read_floor_limits and write_floor_limits issue their request on
\* self.client without the `if not self.client or not
\* self.client.is_connected` test of the others
Unguarded == {"read_floor_limits", "write_floor_limits"}

\* const.py: CURRENCY_MAP.get(b, "Unknown")
CURRENCY_MAP(b) ==
    CASE b = 1 -> "EUR" [] b = 2 -> "SEK" [] b = 3 -> "NOK" [] b = 4 -> "RUB"
      [] b = 5 -> "USD" [] OTHER -> "Unknown"

\* const.py: CURRENCY_SYMBOLS.get(b, ""), a string being the sequence of
\* its code points (euro sign, "kr", "kr", rouble sign, "$")
CURRENCY_SYMBOLS(b) ==
    CASE b = 1 -> <<8364>> [] b = 2 -> <<107, 114>> [] b = 3 -> <<107, 114>>
      [] b = 4 -> <<8381>> [] b = 5 -> <<36>> [] OTHER -> <<>>

\* bytes.decode('utf-8'): the length of the well-formed sequence that
\* begins b (0 when there is none) and its code point
Continuation(x) == 128 <= x /\ x <= 191
Utf8Len(b) ==
    LET n == Len(b) IN
    CASE b[1] < 128 -> 1
      [] b[1] \in 194..223 /\ n >= 2 /\ Continuation(b[2]) -> 2
      [] b[1] = 224 /\ n >= 3 /\ b[2] \in 160..191 /\ Continuation(b[3]) -> 3
      [] b[1] \in (225..236) \cup {238, 239} /\ n >= 3
            /\ Continuation(b[2]) /\ Continuation(b[3]) -> 3
      [] b[1] = 237 /\ n >= 3 /\ b[2] \in 128..159 /\ Continuation(b[3]) -> 3
      [] b[1] = 240 /\ n >= 4 /\ b[2] \in 144..191
            /\ Continuation(b[3]) /\ Continuation(b[4]) -> 4
      [] b[1] \in 241..243 /\ n >= 4 /\ Continuation(b[2])
            /\ Continuation(b[3]) /\ Continuation(b[4]) -> 4
      [] b[1] = 244 /\ n >= 4 /\ b[2] \in 128..143
            /\ Continuation(b[3]) /\ Continuation(b[4]) -> 4
      [] OTHER -> 0

Utf8Point(b, n) ==
    CASE n = 1 -> b[1]
      [] n = 2 -> (b[1] - 192) * 64 + (b[2] - 128)
      [] n = 3 -> (b[1] - 224) * 4096 + (b[2] - 128) * 64 + (b[3] - 128)
      [] OTHER -> (b[1] - 240) * 262144 + (b[2] - 128) * 4096
                  + (b[3] - 128) * 64 + (b[4] - 128)

\* the code points of b, or <<-1>> where decode raises UnicodeDecodeError
RECURSIVE DecodeUtf8(_)
DecodeUtf8(b) ==
    IF b = <<>> THEN <<>>
    ELSE LET n == Utf8Len(b) IN
         IF n = 0 THEN <<-1>>
         ELSE LET rest == DecodeUtf8(SubSeq(b, n + 1, Len(b))) IN
              IF rest = <<-1>> THEN <<-1>> ELSE <<Utf8Point(b, n)>> \o rest

\* str(int.from_bytes(b, byteorder='little')): the decimal digits of the
\* number, lowest first, are those of 256 times the number of the higher
\* bytes plus the lowest byte (the number of four bytes exceeds the
\* integers of the checker, its digits do not)
RECURSIVE TimesByteBase(_, _)
TimesByteBase(d, carry) ==
    IF d = <<>>
    THEN IF carry = 0 THEN <<>> ELSE <<carry % 10>> \o TimesByteBase(<<>>, carry \div 10)
    ELSE LET v == d[1] * 256 + carry
         IN <<v % 10>> \o TimesByteBase(Tail(d), v \div 10)

RECURSIVE DecimalLowestFirst(_)
DecimalLowestFirst(b) ==
    IF b = <<>> THEN <<>> ELSE TimesByteBase(DecimalLowestFirst(Tail(b)), b[1])

Digits(b) ==
    LET d == DecimalLowestFirst(b)
    IN IF d = <<>> THEN <<48>> ELSE [i \in 1..Len(d) |-> 48 + d[Len(d) + 1 - i]]

\* the parse of each reader (data[0] of an empty answer raises IndexError:
\* None; a slice of a short answer is short and from_bytes takes it)
ParseHeatingMode(data) ==
    IF data = <<>> THEN NoneV
    ELSE [k |-> "heating_mode", mode_number |-> data[1],
          mode_name |-> MODE_MAP(data[1])]

ParseAdaptiveTempControl(data) ==
    IF data = <<>> THEN NoneV ELSE [k |-> "adaptive", enabled |-> data[1] # 0]

ParseDateAndTime(data) ==
    IF Len(data) # 7 THEN NoneV
    ELSE [k |-> "date_and_time", year |-> FromBytesLE(Slice(data, 0, 2)),
          month |-> data[3], day |-> data[4], hour |-> data[5],
          minute |-> data[6], second |-> data[7]]

ParseDaylightSaving(data) ==
    IF data = <<>> THEN NoneV
    ELSE [k |-> "daylight_saving", enabled |-> data[1] # 0,
          winter_to_summer_offset |-> FromBytesLESigned(Slice(data, 2, 4)),
          summer_to_winter_offset |-> FromBytesLESigned(Slice(data, 4, 6)),
          timezone_offset |-> FromBytesLESigned(Slice(data, 6, 8))]

\* the limits in hundredths of a degree
ParseFloorLimits(data) ==
    IF Len(data) # 4 THEN NoneV
    ELSE [k |-> "floor_limits", low_value |-> FromBytesLE(Slice(data, 0, 2)),
          high_value |-> FromBytesLE(Slice(data, 2, 4))]

\* round(raw_value / 10, 1): the value in tenths of a degree
ParseRoomSensorCalibration(data) ==
    [k |-> "calibration",
     calibration_value |-> FromBytesLESigned(Slice(data, 0, 2))]

ParseSoftwareRevision(data) ==
    IF DecodeUtf8(data) = <<-1>> THEN NoneV ELSE Str(DecodeUtf8(data))

ParseHardwareRevision(data) == Str(Digits(Slice(data, 0, 4)))

ParseHeatingPower(data) ==
    [k |-> "heating_power", heating_power |-> FromBytesLE(Slice(data, 0, 2))]

ParseFloorArea(data) ==
    [k |-> "floor_area", floor_area |-> FromBytesLE(Slice(data, 0, 2))]

\* the price in hundredths
ParseEnergyUnit(data) ==
    IF data = <<>> THEN NoneV
    ELSE [k |-> "energy_unit", currency_code |-> data[1],
          currency_name |-> CURRENCY_MAP(data[1]),
          currency_symbol |-> CURRENCY_SYMBOLS(data[1]),
          price |-> FromBytesLE(Slice(data, 2, 4))]

ParseCalendarMode(data) ==
    IF data = <<>> THEN NoneV ELSE [k |-> "calendar_mode", enabled |-> data[1] # 0]

ParseSetting(o, data) ==
    CASE o = "read_heating_mode" -> ParseHeatingMode(data)
      [] o = "read_adaptive_temp_control" -> ParseAdaptiveTempControl(data)
      [] o = "read_date_and_time" -> ParseDateAndTime(data)
      [] o = "read_daylight_saving" -> ParseDaylightSaving(data)
      [] o = "read_floor_limits" -> ParseFloorLimits(data)
      [] o = "read_room_sensor_calibration" -> ParseRoomSensorCalibration(data)
      [] o = "read_software_revision" -> ParseSoftwareRevision(data)
      [] o = "read_hardware_revision" -> ParseHardwareRevision(data)
      [] o = "read_heating_power" -> ParseHeatingPower(data)
      [] o = "read_floor_area" -> ParseFloorArea(data)
      [] o = "read_energy_unit" -> ParseEnergyUnit(data)
      [] OTHER -> ParseCalendarMode(data)

\* low limits (in hundredths) for which the float difference of the limit
\* eight degrees higher and the low limit lies just below 8
\* (13.03 - 5.03 = 7.999999999999999); every other difference of two
\* limits in range compares with 8 as the exact one does
GapBelowEight ==
    {503, 504, 511, 512, 519, 520, 528, 529, 536, 537, 544, 545, 553, 554,
     561, 562, 569, 570, 578, 579, 586, 587, 594, 595, 603, 604, 611, 612,
     619, 620, 628, 629, 636, 637, 644, 645, 653, 654, 661, 662, 669, 670,
     678, 679, 686, 687, 694, 695, 703, 704, 711, 712, 719, 720, 728, 729,
     736, 737, 744, 745, 753, 754, 761, 762, 769, 770, 778, 779, 786, 787,
     794, 795, 806, 808, 813, 815, 822, 824, 831, 833, 838, 840, 847, 849,
     856, 858, 863, 865, 872, 874, 881, 883, 888, 890, 897, 899, 906, 908,
     913, 915, 922, 924, 931, 933, 938, 940, 947, 949, 956, 958, 963, 965,
     972, 974, 981, 983, 988, 990, 997, 999, 1006, 1008, 1013, 1015, 1022,
     1024, 1031, 1033, 1038, 1040, 1047, 1049, 1056, 1058, 1063, 1065, 1072,
     1074, 1081, 1083, 1088, 1090, 1097, 1099, 1106, 1108, 1113, 1115, 1122,
     1124, 1131, 1133, 1138, 1140, 1147, 1149, 1156, 1158, 1163, 1165, 1172,
     1174, 1181, 1183, 1188, 1190, 1197, 1199, 1206, 1208, 1213, 1215, 1222,
     1224, 1231, 1233, 1238, 1240, 1247, 1249, 1256, 1258, 1263, 1265, 1272,
     1274, 1281, 1283, 1288, 1290, 1297, 1299, 1306, 1308, 1313, 1315, 1322,
     1324, 1331, 1333, 1338, 1340, 1347, 1349, 1356, 1358, 1363, 1365, 1372,
     1374, 1381, 1383, 1388, 1390, 1397, 1399, 1406, 1408, 1413, 1415, 1422,
     1424, 1431, 1433, 1438, 1440, 1447, 1449, 1456, 1458, 1463, 1465, 1472,
     1474, 1481, 1483, 1488, 1490, 1497, 1499, 1506, 1508, 1513, 1515, 1522,
     1524, 1531, 1533, 1538, 1540, 1547, 1549, 1556, 1558, 1563, 1565, 1572,
     1574, 1581, 1583, 1588, 1590, 1597, 1599, 2401, 2405, 2412, 2416, 2419,
     2423, 2426, 2430, 2437, 2441, 2444, 2448, 2451, 2455, 2462, 2466, 2469,
     2473, 2476, 2480, 2487, 2491, 2494, 2498, 2501, 2505, 2512, 2516, 2519,
     2523, 2526, 2530, 2537, 2541, 2544, 2548, 2551, 2555, 2562, 2566, 2569,
     2573, 2576, 2580, 2587, 2591, 2594, 2598, 2601, 2605, 2612, 2616, 2619,
     2623, 2626, 2630, 2637, 2641, 2644, 2648, 2651, 2655, 2662, 2666, 2669,
     2673, 2676, 2680, 2687, 2691, 2694, 2698, 2701, 2705, 2712, 2716, 2719,
     2723, 2726, 2730, 2737, 2741, 2744, 2748, 2751, 2755, 2762, 2766, 2769,
     2773, 2776, 2780, 2787, 2791, 2794, 2798, 2801, 2805, 2812, 2816, 2819,
     2823, 2826, 2830, 2837, 2841, 2844, 2848, 2851, 2855, 2862, 2866, 2869,
     2873, 2876, 2880, 2887, 2891, 2894, 2898, 2901, 2905, 2912, 2916, 2919,
     2923, 2926, 2930, 2937, 2941, 2944, 2948, 2951, 2955, 2962, 2966, 2969,
     2973, 2976, 2980, 2987, 2991, 2994, 2998, 3001, 3005, 3012, 3016, 3019,
     3023, 3026, 3030, 3037, 3041, 3044, 3048, 3051, 3055, 3062, 3066, 3069,
     3073, 3076, 3080, 3087, 3091, 3094, 3098, 3101, 3105, 3112, 3116, 3119,
     3123, 3126, 3130, 3137, 3141, 3144, 3148, 3151, 3155, 3162, 3166, 3169,
     3173, 3176, 3180, 3187, 3191, 3194, 3198}

\* high_value - low_value < 8
FloorGapTooSmall(low, high) ==
    high - low < 800 \/ (high - low = 800 /\ low \in GapBelowEight)

\* the arguments pass the checks of the writer and can be encoded (a range
\* check returns False or raises ValueError, bytes([..]), a bytearray item
\* and to_bytes raise outside their range: the call returns False)
SettingArgsValid(o, a) ==
    CASE o = "write_heating_mode" -> MODE_MAP(a.mode) # "Unknown"
      [] o = "write_date_and_time" ->
            /\ 0 <= a.year /\ a.year <= 9999
            /\ 1 <= a.month /\ a.month <= 12
            /\ 1 <= a.day /\ a.day <= 31
            /\ 0 <= a.hour /\ a.hour <= 23
            /\ 0 <= a.minute /\ a.minute <= 59
            /\ 0 <= a.second /\ a.second <= 59
      [] o = "write_daylight_saving" ->
            /\ FitsSigned(a.winter_to_summer, 2)
            /\ FitsSigned(a.summer_to_winter, 2)
            /\ FitsSigned(a.timezone_offset, 2)
      [] o = "write_floor_limits" ->
            /\ 500 <= a.low_value /\ a.low_value <= 4200
            /\ 1300 <= a.high_value /\ a.high_value <= 5000
            /\ ~FloorGapTooSmall(a.low_value, a.high_value)
      [] o = "write_room_sensor_calibration" -> -500 <= a.value /\ a.value <= 500
      [] o = "write_heating_power" -> 0 <= a.value /\ a.value <= 9999
      [] o = "write_floor_area" -> 0 <= a.value /\ a.value <= 65535
      [] o = "write_energy_unit" ->
            0 <= a.price /\ a.price <= 65535 /\ IsByte(a.currency)
      [] OTHER -> TRUE

\* the bytes each writer sends (temperatures and the price are given in
\* hundredths)
HeatingModeData(a) == <<a.mode>>
AdaptiveTempControlData(a) == <<IF a.enabled THEN 1 ELSE 0>>
DateAndTimeData(a) ==
    ToBytesLE(a.year, 2) \o <<a.month, a.day, a.hour, a.minute, a.second>>
DaylightSavingData(a) ==
    <<IF a.enabled THEN 1 ELSE 0, 0>>
    \o ToBytesLESigned(a.winter_to_summer, 2)
    \o ToBytesLESigned(a.summer_to_winter, 2)
    \o ToBytesLESigned(a.timezone_offset, 2)
FloorLimitsData(a) ==
    ToBytesLE(IntTimes100(a.low_value), 2) \o ToBytesLE(IntTimes100(a.high_value), 2)
RoomSensorCalibrationData(a) == ToBytesLESigned(IntTimes10(a.value), 2)
HeatingPowerData(a) == ToBytesLE(a.value, 2)
FloorAreaData(a) == ToBytesLE(a.value, 2)
EnergyUnitData(a) == <<a.currency, 0>> \o ToBytesLE(IntTimes100(a.price), 2)
CalendarModeData(a) == <<IF a.enabled THEN 1 ELSE 0>>

SettingData(o, a) ==
    CASE o = "write_heating_mode" -> HeatingModeData(a)
      [] o = "write_adaptive_temp_control" -> AdaptiveTempControlData(a)
      [] o = "write_date_and_time" -> DateAndTimeData(a)
      [] o = "write_daylight_saving" -> DaylightSavingData(a)
      [] o = "write_floor_limits" -> FloorLimitsData(a)
      [] o = "write_room_sensor_calibration" -> RoomSensorCalibrationData(a)
      [] o = "write_heating_power" -> HeatingPowerData(a)
      [] o = "write_floor_area" -> FloorAreaData(a)
      [] o = "write_energy_unit" -> EnergyUnitData(a)
      [] OTHER -> CalendarModeData(a)

\* what a writer returns: write_calendar_mode returns False after a
\* BleakError, the others None; the set_ wrappers return None whatever
\* their writer returned
SettingWritten(o, out) ==
    CASE o \in {"set_heating_mode", "set_adaptive_temp_control"} -> NoneV
      [] out = "ok" -> TrueV
      [] out = "bleak" /\ o # "write_calendar_mode" -> NoneV
      [] OTHER -> FalseV

Call(o, a) == [op |-> o, args |-> a]

\* the calls made: every reader, and every writer with arguments in range,
\* out of range, at a float truncation (8.12, 0.29) and at a float
\* difference below 8 (5.03 and 13.03)
SettingCalls ==
    {Call(o, <<>>) : o \in SettingReaders}
    \cup {Call(o, [mode |-> m]) : o \in {"write_heating_mode", "set_heating_mode"},
                                  m \in {3, 7}}
    \cup {Call(o, [enabled |-> TRUE]) :
              o \in {"write_adaptive_temp_control", "set_adaptive_temp_control",
                     "write_calendar_mode"}}
    \cup {Call("write_date_and_time",
               [year |-> 2027, month |-> m, day |-> 31, hour |-> 23,
                minute |-> 59, second |-> 58]) : m \in {12, 13}}
    \cup {Call("write_daylight_saving",
               [enabled |-> TRUE, winter_to_summer |-> 60, summer_to_winter |-> 60,
                timezone_offset |-> z]) : z \in {-300, 40000}}
    \cup {Call("write_floor_limits", [low_value |-> 812, high_value |-> 3500]),
          Call("write_floor_limits", [low_value |-> 503, high_value |-> 1303]),
          Call("write_floor_limits", [low_value |-> 400, high_value |-> 3500])}
    \cup {Call("write_room_sensor_calibration", [value |-> v]) :
              v \in {-120, -125, 600}}
    \cup {Call("write_heating_power", [value |-> v]) : v \in {900, 10000}}
    \cup {Call("write_floor_area", [value |-> v]) : v \in {40, 70000}}
    \cup {Call("write_energy_unit", [currency |-> 2, price |-> 29]),
          Call("write_energy_unit", [currency |-> 300, price |-> 1234]),
          Call("write_energy_unit", [currency |-> 1, price |-> 70000])}

\* a caller invokes one of these operations
StartSetting(t, c) ==
    /\ cur = 0
    /\ task[t].pc \in {"idle", "done"}
    /\ opsLeft > 0
    /\ opsLeft' = opsLeft - 1
    /\ task' = Set(t, [IdleTask EXCEPT
                         !.pc = IF c.op \in SettingReaders
                                THEN "read_setting" ELSE "write_setting",
                         !.op = c.op, !.args = c.args,
                         !.uuid = SettingUuid(c.op)])
    /\ cur' = t
    /\ UNCHANGED <<sessionVars, linkVars, hlog, coordVars, timeVars, thermostat>>

\* a reader begins: not connected returns None (read_floor_limits has no
\* such test: on a None client the attribute access raises, which returns
\* None); else the read is issued on self.client
read_setting(t) ==
    /\ cur = t
    /\ task[t].pc = "read_setting"
    /\ IF client = None \/ (task[t].op \notin Unguarded /\ ~ClientConnected)
       THEN /\ task' = Set(t, [task[t] EXCEPT !.pc = "ret",
                                             !.res = [st |-> "none", val |-> NoneV]])
            /\ cur' = t
       ELSE /\ task' = Set(t, [task[t] EXCEPT !.pc = "sr_read", !.reqH = client])
            /\ cur' = 0
    /\ UNCHANGED <<sessionVars, linkVars, hlog, opsLeft, coordVars, timeVars, thermostat>>

\* the read is answered with the record the device holds, which is parsed;
\* a BleakError clears self.client; every exception returns None
read_setting_done(t) ==
    /\ cur = 0
    /\ task[t].pc = "sr_read"
    /\ \E out \in Outcomes(task[t].reqH) :
         LET data == thermostat.chars[task[t].uuid] IN
         /\ linkErr' = LinkErrAfter(task[t].reqH, out)
         /\ client' = ClientAfterRead(out)
         /\ task' = Set(t, [task[t] EXCEPT
                              !.pc = "ret", !.reqH = None,
                              !.gerr = @ \/ out = "bleak",
                              !.raw = IF out = "ok" THEN data ELSE @,
                              !.res = [st |-> "none",
                                       val |-> IF out = "ok"
                                               THEN ParseSetting(task[t].op, data)
                                               ELSE NoneV]])
    /\ cur' = t
    /\ UNCHANGED <<connect_lock, store, nOpened, linkUp,
                   authDone, hlog, opsLeft, coordVars, timeVars, thermostat>>

\* a writer begins: not connected returns False (write_floor_limits has no
\* such test: on a None client the attribute access raises), arguments out
\* of range return False (write_heating_power and write_floor_area check
\* them before the connection, the others after it); else the bytes are
\* made and the write is issued on self.client
write_setting(t) ==
    /\ cur = t
    /\ task[t].pc = "write_setting"
    /\ LET o == SettingWriterOf(task[t].op) IN
       IF \/ ~SettingArgsValid(o, task[t].args)
          \/ client = None
          \/ (o \notin Unguarded /\ ~ClientConnected)
       THEN /\ task' = Set(t, [task[t] EXCEPT
                                 !.pc = "ret",
                                 !.res = [st |-> "none",
                                          val |-> SettingWritten(task[t].op, "other")]])
            /\ cur' = t
       ELSE /\ task' = Set(t, [task[t] EXCEPT !.pc = "sw_write", !.reqH = client,
                                             !.data = SettingData(o, task[t].args)])
            /\ cur' = 0
    /\ UNCHANGED <<sessionVars, linkVars, hlog, opsLeft, coordVars, timeVars, thermostat>>

\* the write is answered: the device holds the bytes and the call returns
\* True; a BleakError clears self.client
write_setting_done(t) ==
    /\ cur = 0
    /\ task[t].pc = "sw_write"
    /\ \E out \in Outcomes(task[t].reqH) :
         /\ linkErr' = LinkErrAfter(task[t].reqH, out)
         /\ client' = ClientAfterRead(out)
         /\ task' = Set(t, [task[t] EXCEPT
                              !.pc = "ret", !.reqH = None,
                              !.gerr = @ \/ out = "bleak",
                              !.wlog = IF out = "ok"
                                       THEN Append(@, Written(task[t].uuid, task[t].data))
                                       ELSE @,
                              !.res = [st |-> "none",
                                       val |-> SettingWritten(task[t].op, out)]])
         /\ thermostat' = IF out = "ok"
                          THEN [thermostat EXCEPT !.chars[task[t].uuid] = task[t].data]
                          ELSE thermostat
    /\ cur' = t
    /\ UNCHANGED <<connect_lock, store, nOpened, linkUp,
                   authDone, hlog, opsLeft, coordVars, timeVars>>

\* ------------------------------------------------------------------- Next
\* ensure_connection and the connect sequence
ConnectSteps ==
    \/ \E t \in Tasks : ensure_connection(t)
    \/ \E t \in Tasks : connect(t)
    \/ \E t \in Tasks : connect_acquired(t)
    \/ \E t \in Tasks : connect_locked(t)
    \/ \E t \in Tasks : establish_connection(t)
    \/ \E t \in Tasks : pair(t)
    \/ \E t \in Tasks : read_device_info(t)
    \/ \E t \in Tasks : read_factory_reset_id(t)
    \/ \E t \in Tasks : write_device_info(t)
    \/ \E t \in Tasks : async_save_device_data(t)
    \/ \E t \in Tasks : write_factory_reset_id(t)
    \/ \E t \in Tasks : read_model_number(t)
    \/ \E t \in Tasks : read_device_name(t)
    \/ \E t \in Tasks : connect_return(t)
    \/ \E t \in Tasks : Return(t)
    \/ \E h \in 1..MaxHandles : LinkLoss(h)

\* session life cycle: connect, ensure_connection, cleanup and a guarded read
Next ==
    \/ \E t \in Tasks, o \in SessionOps : Start(t, o)
    \/ ConnectSteps
    \/ \E t \in Tasks : cleanup(t)
    \/ \E t \in Tasks : cleanup_disconnect(t)
    \/ \E t \in Tasks : read_boost(t)
    \/ \E t \in Tasks : read_boost_done(t)
    \/ \E t \in Tasks : async_remove_device_data(t)
    \/ \E t \in Tasks : remove_loaded(t)
    \/ \E t \in Tasks : remove_saved(t)

Spec == Init /\ [][Next]_vars

\* the session with any stored id against a device with any factory reset id
SpecAuth == InitAuth /\ [][Next]_vars

\* the steps of started calls: the event loop runs every task that is ready,
\* and the transport and storage requests of a call return
Progress ==
    \E t \in Tasks :
       \/ ensure_connection(t) \/ connect(t) \/ connect_acquired(t)
       \/ connect_locked(t) \/ establish_connection(t) \/ pair(t)
       \/ read_device_info(t) \/ read_factory_reset_id(t) \/ write_device_info(t)
       \/ async_save_device_data(t)
       \/ async_remove_device_data(t) \/ remove_loaded(t) \/ remove_saved(t)
       \/ write_factory_reset_id(t) \/ read_model_number(t) \/ read_device_name(t)
       \/ connect_return(t) \/ Return(t)
       \/ cleanup(t) \/ cleanup_disconnect(t) \/ read_boost(t) \/ read_boost_done(t)

\* the session life cycle in which started calls keep being scheduled
SpecLive == Init /\ [][Next]_vars /\ WF_vars(Progress)

\* GATT transfers: a guarded read and the chunked read and write
NextTransfer ==
    \/ \E t \in Tasks, o \in TransferOps : Start(t, o)
    \/ \E t \in Tasks : StartRead(t, "characteristic_uuid")
    \/ ConnectSteps
    \/ \E t \in Tasks : read_boost(t)
    \/ \E t \in Tasks : read_boost_done(t)
    \/ \E t \in Tasks : read_split_characteristic(t)
    \/ \E t \in Tasks : read_gatt_char(t)
    \/ \E t \in Tasks : write_split_characteristic(t)
    \/ \E t \in Tasks : write_gatt_char(t)
    \/ \E t \in Tasks : write_split_slept(t)

SpecTransfer == Init /\ [][NextTransfer]_vars

\* the steps of started transfers: ready tasks run and GATT requests return
TransferProgress ==
    \/ Progress
    \/ \E t \in Tasks :
          \/ read_split_characteristic(t) \/ read_gatt_char(t)
          \/ write_split_characteristic(t) \/ write_gatt_char(t)
          \/ write_split_slept(t)

\* the transfers in which started calls keep being scheduled
SpecTransferLive == Init /\ [][NextTransfer]_vars /\ WF_vars(TransferProgress)

\* the real-time coordinator and the direct reads of the live status
NextRealTime ==
    \/ \E t \in Tasks, o \in RealTimeOps : Start(t, o)
    \/ ConnectSteps
    \/ \E t \in Tasks : read_split_characteristic(t)
    \/ \E t \in Tasks : read_gatt_char(t)
    \/ \E t \in Tasks : get_real_time_data(t)
    \/ \E t \in Tasks : update_acquired(t)
    \/ \E t \in Tasks : get_locked(t)
    \/ \E t \in Tasks : get_after(t)
    \/ \E d \in TickSteps : Tick(d)

SpecRealTime == Init /\ [][NextRealTime]_vars

\* the day calendar: a connection, then reads and writes of day records
NextCalendar ==
    \/ \E t \in Tasks : Start(t, "ensure_connection")
    \/ \E t \in Tasks, day \in CalendarDays, programs \in ProgramLists :
         StartCalendar(t, "write_calendar_day", day, programs)
    \/ \E t \in Tasks, day \in CalendarDays :
         StartCalendar(t, "read_calendar_day", day, <<>>)
    \/ ConnectSteps
    \/ \E t \in Tasks : read_split_characteristic(t)
    \/ \E t \in Tasks : read_gatt_char(t)
    \/ \E t \in Tasks : write_split_characteristic(t)
    \/ \E t \in Tasks : write_gatt_char(t)
    \/ \E t \in Tasks : write_split_slept(t)
    \/ \E t \in Tasks : write_calendar_day(t)
    \/ \E t \in Tasks : write_calendar_select(t)
    \/ \E t \in Tasks : write_calendar_after(t)
    \/ \E t \in Tasks : write_calendar_slept(t)
    \/ \E t \in Tasks : write_calendar_commit(t)
    \/ \E t \in Tasks : read_calendar_day(t)
    \/ \E t \in Tasks : read_calendar_select(t)
    \/ \E t \in Tasks : read_calendar_slept(t)
    \/ \E t \in Tasks : read_calendar_after(t)

SpecCalendar == Init /\ [][NextCalendar]_vars

\* the vacation record: a connection, then reads and writes of the
\* vacation time
NextVacation ==
    \/ \E t \in Tasks : Start(t, "ensure_connection")
    \/ \E t \in Tasks : Start(t, "read_vacation_time")
    \/ \E t \in Tasks, a \in VacationInputs : StartVacation(t, a)
    \/ ConnectSteps
    \/ \E t \in Tasks : write_vacation_time(t)
    \/ \E t \in Tasks : read_vacation_time(t)
    \/ \E t \in Tasks : read_vacation_answered(t)
    \/ \E t \in Tasks : write_vacation_written(t)
    \/ \E b \in {0, 1} : VacationMode(b)

SpecVacation == InitVacation /\ [][NextVacation]_vars

\* the settings: a connection, then reads and writes of the single
\* characteristics and of the boost record
NextSettings ==
    \/ \E t \in Tasks, o \in {"ensure_connection", "read_boost"} : Start(t, o)
    \/ \E t \in Tasks, a \in BoostInputs : StartBoost(t, a)
    \/ \E t \in Tasks, c \in SettingCalls : StartSetting(t, c)
    \/ ConnectSteps
    \/ \E t \in Tasks : read_boost(t)
    \/ \E t \in Tasks : read_boost_done(t)
    \/ \E t \in Tasks : write_boost(t)
    \/ \E t \in Tasks : write_boost_done(t)
    \/ \E t \in Tasks : read_setting(t)
    \/ \E t \in Tasks : read_setting_done(t)
    \/ \E t \in Tasks : write_setting(t)
    \/ \E t \in Tasks : write_setting_done(t)

SpecSettings == InitSettings /\ [][NextSettings]_vars

\* the histories: chunked reads of the monitoring and the power record
NextHistory ==
    \/ \E t \in Tasks, o \in {"read_monitoring_data", "read_power_consumption"} :
         StartHistory(t, o)
    \/ ConnectSteps
    \/ \E t \in Tasks : read_split_characteristic(t)
    \/ \E t \in Tasks : read_gatt_char(t)
    \/ \E t \in Tasks : read_monitoring_data(t)
    \/ \E t \in Tasks : read_power_consumption(t)

SpecHistory == Init /\ [][NextHistory]_vars

\* the external control: reads and read-modify-writes of its record
NextForce ==
    \/ \E t \in Tasks : Start(t, "read_force_control")
    \/ \E t \in Tasks, a \in ForceInputs : StartForce(t, a)
    \/ ConnectSteps
    \/ \E t \in Tasks : write_force_control(t)
    \/ \E t \in Tasks : write_force_current(t)
    \/ \E t \in Tasks : write_force_written(t)
    \/ \E t \in Tasks : read_force_control(t)
    \/ \E t \in Tasks : read_force_done(t)

SpecForce == InitForce /\ [][NextForce]_vars

\* every operation of the manager that issues GATT requests, and the
\* real-time coordinator
NextManager ==
    \/ \E t \in Tasks, o \in SessionOps \cup TransferOps \cup RealTimeOps
                             \cup {"read_force_control", "read_vacation_time"} :
         Start(t, o)
    \/ \E t \in Tasks : StartRead(t, "characteristic_uuid")
    \/ \E t \in Tasks, day \in CalendarDays, programs \in ProgramLists :
         StartCalendar(t, "write_calendar_day", day, programs)
    \/ \E t \in Tasks, day \in CalendarDays :
         StartCalendar(t, "read_calendar_day", day, <<>>)
    \/ \E t \in Tasks, a \in VacationInputs : StartVacation(t, a)
    \/ \E t \in Tasks, a \in BoostInputs : StartBoost(t, a)
    \/ \E t \in Tasks, c \in SettingCalls : StartSetting(t, c)
    \/ \E t \in Tasks, o \in {"read_monitoring_data", "read_power_consumption"} :
         StartHistory(t, o)
    \/ \E t \in Tasks, a \in ForceInputs : StartForce(t, a)
    \/ ConnectSteps
    \/ \E t \in Tasks : cleanup(t)
    \/ \E t \in Tasks : cleanup_disconnect(t)
    \/ \E t \in Tasks : async_remove_device_data(t)
    \/ \E t \in Tasks : remove_loaded(t)
    \/ \E t \in Tasks : remove_saved(t)
    \/ \E t \in Tasks : read_split_characteristic(t)
    \/ \E t \in Tasks : read_gatt_char(t)
    \/ \E t \in Tasks : write_split_characteristic(t)
    \/ \E t \in Tasks : write_gatt_char(t)
    \/ \E t \in Tasks : write_split_slept(t)
    \/ \E t \in Tasks : get_real_time_data(t)
    \/ \E t \in Tasks : update_acquired(t)
    \/ \E t \in Tasks : get_locked(t)
    \/ \E t \in Tasks : get_after(t)
    \/ \E t \in Tasks : write_calendar_day(t)
    \/ \E t \in Tasks : write_calendar_select(t)
    \/ \E t \in Tasks : write_calendar_after(t)
    \/ \E t \in Tasks : write_calendar_slept(t)
    \/ \E t \in Tasks : write_calendar_commit(t)
    \/ \E t \in Tasks : read_calendar_day(t)
    \/ \E t \in Tasks : read_calendar_select(t)
    \/ \E t \in Tasks : read_calendar_slept(t)
    \/ \E t \in Tasks : read_calendar_after(t)
    \/ \E t \in Tasks : write_vacation_time(t)
    \/ \E t \in Tasks : read_vacation_time(t)
    \/ \E t \in Tasks : read_vacation_answered(t)
    \/ \E t \in Tasks : write_vacation_written(t)
    \/ \E t \in Tasks : read_boost(t)
    \/ \E t \in Tasks : read_boost_done(t)
    \/ \E t \in Tasks : write_boost(t)
    \/ \E t \in Tasks : write_boost_done(t)
    \/ \E t \in Tasks : read_setting(t)
    \/ \E t \in Tasks : read_setting_done(t)
    \/ \E t \in Tasks : write_setting(t)
    \/ \E t \in Tasks : write_setting_done(t)
    \/ \E t \in Tasks : read_monitoring_data(t)
    \/ \E t \in Tasks : read_power_consumption(t)
    \/ \E t \in Tasks : write_force_control(t)
    \/ \E t \in Tasks : write_force_current(t)
    \/ \E t \in Tasks : write_force_written(t)
    \/ \E t \in Tasks : read_force_control(t)
    \/ \E t \in Tasks : read_force_done(t)

SpecManager == InitManager /\ [][NextManager]_vars

\* the decoders and encoders applied to their inputs
NextCodec ==
    \/ \E t \in Tasks, data \in LiveRecords : StartParse(t, data)
    \/ \E t \in Tasks : parse_indication(t)
    \/ \E t \in Tasks : Return(t)

SpecCodec == Init /\ [][NextCodec]_vars

\* ----------------------------------------------------------------- claims
\* a task is inside the locked part of connect()
InConnectSequence(t) ==
    task[t].pc \in {"c_locked", "c_establish", "c_pair", "c_load", "c_read_frid",
                    "c_save", "c_store", "c_write_frid", "c_read_model", "c_read_name"}

HasEv(e) == \E i \in 1..Len(hlog) : hlog[i].e = e
Pos(e) == CHOOSE i \in 1..Len(hlog) : hlog[i].e = e

\* the running connect sequence found no stored authentication id
FirstTimePairing == HasEv("load") /\ hlog[Pos("load")].v = None

\* C1: a connect() invoked while another connect() on the same manager holds
\* the connect lock fails fast with "Already connecting" instead of waiting,
\* and opens no transport handle
C1_AlreadyConnecting ==
    [][\A t \in Tasks :
         (/\ cur = t
          /\ task[t].pc = "connect"
          /\ connect_lock.owner \notin {0, t}
          /\ task'[t] # task[t])
         => (/\ task'[t].pc = "c_ret"
             /\ task'[t].exc # "none"
             /\ nOpened' = nOpened)]_vars

\* C2: at most one connect sequence runs at a time; a caller of
\* ensure_connection() or connect() that arrives while one is in flight
\* waits for it, and a waiter that finds the session connected returns
\* without establishing a second transport
C2_Mutex == Cardinality({t \in Tasks : InConnectSequence(t)}) <= 1

C2_Waits ==
    \A t \in Tasks :
       (/\ cur = t
        /\ task[t].pc \in {"ensure_connection", "connect"}
        /\ \E u \in Tasks \ {t} : InConnectSequence(u)
        /\ task'[t] # task[t])
       => task'[t].pc \in {"connect", "c_lock"}

C2_NoDuplicate ==
    \A t \in Tasks :
       (cur = t /\ task[t].pc = "c_locked" /\ ClientConnected /\ task'[t] # task[t])
       => (task'[t].pc = "c_ret" /\ nOpened' = nOpened)

C2_SingleFlight == []C2_Mutex /\ [][C2_Waits /\ C2_NoDuplicate]_vars

\* C3: connect() with no stored authentication id pairs, reads the factory
\* reset id from the device, persists it in the credential store and writes
\* that same id back to the device, in this order and before it returns ready
C3_FirstPairingOrder ==
    /\ (FirstTimePairing /\ HasEv("write_frid")) =>
          /\ HasEv("pair") /\ HasEv("read_frid") /\ HasEv("save")
          /\ Pos("pair") < Pos("load")
          /\ Pos("load") < Pos("read_frid")
          /\ Pos("read_frid") < Pos("save")
          /\ Pos("save") < Pos("write_frid")
          /\ hlog[Pos("read_frid")].v # 0
          /\ hlog[Pos("save")].v = hlog[Pos("read_frid")].v
          /\ hlog[Pos("write_frid")].v = hlog[Pos("read_frid")].v
    /\ \A t \in Tasks :
          (task[t].pc = "c_ret" /\ task[t].exc = "none" /\ FirstTimePairing) =>
             HasEv("write_frid")

\* the step that persists the id leaves it in the credential store
C3_Persisted ==
    (Len(hlog') > Len(hlog) /\ hlog'[Len(hlog')].e = "save") =>
       /\ store' = hlog'[Len(hlog')].v
       /\ store' = hlog[Pos("read_frid")].v

\* C3: the order above holds in every state and the persisting step stores
\* the id that was read from the device
C3_FirstPairing == []C3_FirstPairingOrder /\ [][C3_Persisted]_vars

C3_Witness ==
    \E t \in Tasks :
       /\ task[t].pc = "c_ret" /\ task[t].exc = "none"
       /\ FirstTimePairing /\ HasEv("write_frid")
       /\ ClientConnected

\* C4: every fresh connection is paired before any authentication step,
\* with or without a stored id; when pairing fails connect() raises, no
\* authentication write is sent and client is None
C4_PairedFirst ==
    \A i \in 1..Len(hlog) :
       hlog[i].e \in {"load", "read_frid", "save", "write_frid"} =>
          \E j \in 1..(i - 1) : hlog[j].e = "pair" /\ hlog[j].v = hlog[1].v

C4_PairFailure ==
    \A t \in Tasks :
       (task[t].pc = "c_pair" /\ task'[t].pc \notin {"c_pair", "c_load"}) =>
          /\ task'[t].pc = "c_ret"
          /\ task'[t].exc # "none"
          /\ client' = None
          /\ ~HasEv("write_frid")'

C4_PairBeforeAuth == []C4_PairedFirst /\ [][C4_PairFailure]_vars

C4_Witness ==
    \E t \in Tasks :
       /\ task[t].pc = "c_ret" /\ task[t].exc # "none"
       /\ Len(hlog) = 1 /\ hlog[1].e = "establish"
       /\ store # None
       /\ client = None

\* C5: a failed read of a secondary identity field (model number, device
\* name) during connect(), a BleakError included, leaves the session ready:
\* the handle stays in self.client and connect() does not raise
C5_SecondaryReadsKeepReady ==
    [][\A t \in Tasks :
         (/\ task[t].pc \in {"c_read_model", "c_read_name"}
          /\ task'[t].pc # task[t].pc
          /\ client = task[t].reqH
          /\ client \in linkUp)
         => (/\ client' = client
             /\ task'[t].pc = "c_ret" => task'[t].exc = "none")]_vars

\* C6: a public read or write operation invoked while the session is not
\* ready and no connect is in progress starts a connect attempt
C6_LazyReconnect ==
    [][\A t \in Tasks :
         (/\ cur = t
          /\ task[t].pc = "read_boost"
          /\ ~ClientConnected
          /\ LockFree(connect_lock)
          /\ task'[t] # task[t])
         => task'[t].pc \in {"ensure_connection", "connect", "c_locked"}]_vars

\* C7: when a GATT read or write of a manager operation reports a link-level
\* error, client is None afterwards and no request is issued on a handle
\* that has reported such an error; the operation raises or returns None or
\* False, except that connect() (also inside ensure_connection()) returns
\* normally when the error is reported by its read of the model number or
\* of the device name, and that set_heating_mode and
\* set_adaptive_temp_control return None as they do on success

\* the step in which a GATT request of the call of t reports the error
C7_Reported(t) == task'[t].gerr /\ ~task[t].gerr

C7_ErrorDisconnects ==
    \A t \in Tasks : C7_Reported(t) => client' = None

C7_Issued(t) ==
    /\ task'[t].reqH # None
    /\ \/ task'[t].pc # task[t].pc
       \/ task'[t].nfr # task[t].nfr
       \/ task'[t].reqH # task[t].reqH

C7_NoReuse ==
    \A t \in Tasks :
       C7_Issued(t) => (task'[t].reqH = client' /\ task'[t].reqH \notin linkErr')

\* the operations that return None when they succeed
C7_ReturnNone ==
    {"connect", "ensure_connection", "set_heating_mode", "set_adaptive_temp_control"}

\* the finished call has raised, or returned None or False where success
\* returns something else
C7_Failed(t) ==
    \/ task[t].exc # "none"
    \/ task[t].op \notin C7_ReturnNone /\ task[t].res.val \in {NoneV, FalseV}

\* the claim as stated: every operation fails
C7_OperationFails ==
    \A t \in Tasks : (task[t].pc = "ret" /\ task[t].gerr) => C7_Failed(t)

C7_Original == [][C7_ErrorDisconnects /\ C7_NoReuse]_vars /\ []C7_OperationFails

\* connect() raises on the error unless one of its last two reads reports it
C7_ConnectFails ==
    \A t \in Tasks :
       (C7_Reported(t) /\ task[t].pc \in {"c_read_frid", "c_write_frid",
                                           "c_read_model", "c_read_name"}) =>
          /\ task'[t].pc = "c_ret"
          /\ task'[t].exc = "none" <=> task[t].pc \in {"c_read_model", "c_read_name"}

\* a finished call has failed unless it is one that returns None on success
C7_FailsOrReturnsNone ==
    \A t \in Tasks :
       (task[t].pc = "ret" /\ task[t].gerr) =>
          \/ C7_Failed(t)
          \/ task[t].op \in C7_ReturnNone /\ task[t].res.val = NoneV

C7_Amended ==
    /\ [][C7_ErrorDisconnects /\ C7_NoReuse /\ C7_ConnectFails]_vars
    /\ []C7_FailsOrReturnsNone

\* the second frame of a chunked write has reported the error: the call
\* has raised it and the session is disconnected
C7_Witness ==
    \E t \in Tasks :
       /\ task[t].op = "write_split_characteristic"
       /\ task[t].pc = "ret" /\ task[t].chunk = 1
       /\ task[t].gerr /\ task[t].exc = "bleak"
       /\ client = None

\* two get_real_time_data calls that overlapped, both completed, with no
\* time elapsed since the first of them was issued
C8_Together(t, u) ==
    /\ t # u
    /\ task[t].pc = "done" /\ task[u].pc = "done"
    /\ u \in task[t].conc /\ t \in task[u].conc
    /\ ticks = 0

\* C8: concurrent get_real_time_data() calls issued within one freshness
\* window start at most one chunked read of the live status between them
\* and all receive the same result
C8_SingleFlight ==
    \A t, u \in Tasks :
       C8_Together(t, u) =>
          /\ task[t].reads + task[u].reads <= 1
          /\ task[t].res = task[u].res

\* C9: at most one device read of the live-status characteristic is in
\* flight at any time
C9_OneReadInFlight ==
    Cardinality({t \in Tasks : task[t].pc = "rs_read"}) <= 1

\* a step of get_real_time_data taken by task t from position p
C10_Step(t, p) ==
    /\ task[t].op = "get_real_time_data"
    /\ task[t].pc = p
    /\ task'[t].pc # p

\* C10 as stated: any cached reading younger than max_age is returned with
\* no GATT operation; otherwise exactly one chunked read is performed, its
\* decoded result stored with the call's timestamp and returned
C10_Original ==
    [][\A t \in Tasks :
         /\ C10_Step(t, "g_locked") =>
              IF last_data # NoneV /\ last_update # None
                 /\ clock - last_update < task[t].max_age
              THEN /\ task'[t].pc = "ret"
                   /\ task'[t].res.val = last_data
                   /\ task'[t].reqH = None
              ELSE task'[t].pc = "ensure_connection"
         /\ C10_Step(t, "g_after") =>
              /\ task[t].reads = 1
              /\ task'[t].exc = "none"
              /\ last_data' = parse_real_time_indication(task[t].raw)
              /\ last_update' = task[t].now
              /\ task'[t].res.val = last_data']_vars

\* C10 amended: a non-empty cached reading younger than max_age is returned
\* with no GATT operation and the cache untouched; otherwise the call goes
\* on to connect if needed and to start one chunked read. When that read
\* returns data its decoded form is stored with the time taken at the start
\* of the call and returned; when it returns no data the call returns None,
\* and when it or the connect raises the exception leaves the call, the
\* cache being unchanged in both cases
C10_Hit(t) ==
    /\ Truthy(last_data)
    /\ last_update # None
    /\ clock - last_update < task[t].max_age

C10_Amended ==
    [][\A t \in Tasks :
         /\ C10_Step(t, "g_locked") =>
              IF C10_Hit(t)
              THEN /\ task'[t].pc = "ret"
                   /\ task'[t].res.val = last_data
                   /\ task'[t].reqH = None /\ task'[t].reads = 0
                   /\ UNCHANGED <<last_data, last_update, client, linkVars>>
              ELSE /\ task'[t].pc = "ensure_connection"
                   /\ task'[t].now = clock
                   /\ UNCHANGED <<last_data, last_update>>
         /\ C10_Step(t, "g_after") =>
              /\ task'[t].pc = "ret"
              /\ task[t].reads <= 1
              /\ IF task[t].exc = "none" /\ task[t].raw # <<>>
                 THEN /\ task[t].reads = 1
                      /\ last_data' = parse_real_time_indication(task[t].raw)
                      /\ last_update' = task[t].now
                      /\ task'[t].res.val = last_data'
                      /\ task'[t].exc = "none"
                 ELSE /\ UNCHANGED <<last_data, last_update>>
                      /\ task'[t].exc = task[t].exc
                      /\ task[t].exc = "none" =>
                            (task[t].reads = 1 /\ task'[t].res.val = NoneV)
         /\ (C10_Step(t, "ret") /\ task[t].exc # "none") =>
              task'[t].res.st = "raised"]_vars

\* one call has read and stored the live status, a later call is served
\* that reading from the cache after time has passed
C10_Witness ==
    \E t, u \in Tasks :
       /\ task[u].pc = "done" /\ task[u].reads = 1
       /\ task[u].res.val = last_data
       /\ task[t].op = "get_real_time_data" /\ task[t].pc = "ret"
       /\ task[t].reads = 0 /\ task[t].exc = "none"
       /\ task[t].res.val = last_data
       /\ Truthy(last_data)
       /\ task[t].now > last_update

\* the step in which a coordinator attempt of task t ends without data:
\* the connect or the chunked read raised, or the read returned nothing
C11_FailedStep(t) ==
    /\ C10_Step(t, "g_after")
    /\ (task[t].exc # "none" \/ task[t].raw = <<>>)

\* C11 as stated: a failed or empty device read inside get_real_time_data
\* leaves the cached value and timestamp as before and releases the lock,
\* and the next get_real_time_data call starts a fresh device read
C11_Original ==
    [][\A t \in Tasks :
         /\ C11_FailedStep(t) =>
              /\ UNCHANGED <<last_data, last_update>>
              /\ update_lock'.owner = 0
         /\ (C10_Step(t, "g_locked") /\ failed # NoFailure) =>
              task'[t].pc = "ensure_connection"]_vars

\* C11 amended: a failed or empty device read leaves the cached value and
\* timestamp as before and releases the lock; the failure is not cached: the
\* next call whose max_age is not larger than the failed call's goes on to
\* a fresh device read (a call with a larger max_age may still be served an
\* older reading that is fresh by its own window)
C11_Amended ==
    [][\A t \in Tasks :
         /\ C11_FailedStep(t) =>
              /\ UNCHANGED <<last_data, last_update>>
              /\ update_lock'.owner = 0
              /\ task'[t].pc = "ret"
         /\ (C10_Step(t, "g_locked") /\ failed # NoFailure
             /\ task[t].max_age <= failed.max_age) =>
              /\ task'[t].pc = "ensure_connection"
              /\ UNCHANGED <<last_data, last_update>>]_vars

\* a read failed while a reading was cached, and the next call, with a
\* max_age not larger than the failed call's, holds the lock
C11_Witness ==
    \E t \in Tasks :
       /\ task[t].op = "get_real_time_data" /\ task[t].pc = "g_locked"
       /\ update_lock.owner = t
       /\ failed # NoFailure
       /\ task[t].max_age <= failed.max_age
       /\ Truthy(last_data) /\ last_update # None

\* C12: when the device read of one get_real_time_data call fails, every
\* caller that was waiting on that attempt receives the failure and issues
\* no device read of its own
C12_FailurePropagated ==
    [][\A u \in Tasks :
         (C10_Step(u, "g_locked") /\ u \in failed.waiters) =>
            /\ task'[u].pc = "ret"
            /\ task'[u].reads = 0
            /\ (task'[u].exc # "none" \/ task'[u].res.val = NoneV)]_vars

\* the payloads of a sequence of frames, each frame minus its header byte,
\* concatenated in order
RECURSIVE C13_Payload(_)
C13_Payload(fs) ==
    IF fs = <<>> THEN <<>>
    ELSE (IF Head(fs) = <<>> THEN <<>> ELSE Tail(Head(fs))) \o C13_Payload(Tail(fs))

C13_Final(f) == f # <<>> /\ (f[1] \div 64) % 2 = 1

\* the read stopped at the first empty frame or the first final frame
C13_StoppedAtFirst(fs) ==
    /\ Len(fs) >= 1
    /\ \A i \in 1..(Len(fs) - 1) : fs[i] # <<>> /\ ~C13_Final(fs[i])
    /\ (fs[Len(fs)] = <<>> \/ C13_Final(fs[Len(fs)]))

\* r is b with all trailing zero bytes removed
C13_Stripped(r, b) ==
    /\ Len(r) <= Len(b)
    /\ \A i \in 1..Len(b) : b[i] = (IF i <= Len(r) THEN r[i] ELSE 0)
    /\ (r = <<>> \/ r[Len(r)] # 0)

\* C13: read_split_characteristic returns the payloads of the frames read,
\* in read order, up to and including the first frame with bit 0x40 in its
\* header or up to the first empty frame, without trailing zero bytes;
\* frames (0x00,'AB'), (0x40,'CD' 00 00) yield 'ABCD'
C13_ReadSplitResult ==
    \A t \in Tasks :
       (/\ task[t].op = "read_split_characteristic"
        /\ task[t].pc = "ret"
        /\ task[t].exc = "none") =>
          /\ C13_StoppedAtFirst(task[t].frames)
          /\ task[t].res.val.k = "bytes"
          /\ C13_Stripped(task[t].res.val.b, C13_Payload(task[t].frames))
          /\ task[t].frames = <<<<0, 65, 66>>, <<64, 67, 68, 0, 0>>>> =>
                task[t].res.val.b = <<65, 66, 67, 68>>

C13_Witness ==
    \E t \in Tasks :
       /\ task[t].op = "read_split_characteristic"
       /\ task[t].pc = "ret" /\ task[t].exc = "none"
       /\ task[t].frames = <<<<0, 65, 66>>, <<64, 67, 68, 0, 0>>>>
       /\ task[t].res.val.b = <<65, 66, 67, 68>>

\* a write_split_characteristic call of task t has returned True
C14_Done(t) ==
    /\ task[t].op = "write_split_characteristic"
    /\ task[t].pc = "ret"
    /\ task[t].exc = "none"

\* the two packets carry the payload split ceil(n/2) / floor(n/2), the
\* second header being the final flag 0x40
C14_Split(t) ==
    LET n == Len(task[t].data)
        w == task[t].wr
    IN /\ Len(w) = 2
       /\ Len(w[1]) = 1 + ((n + 1) \div 2)
       /\ Len(w[2]) = 1 + (n \div 2)
       /\ w[2][1] = 64
       /\ Tail(w[1]) \o Tail(w[2]) = task[t].data

\* C14 as stated: for a payload of any length write_split_characteristic
\* issues exactly two writes, header 0x00 with the first ceil(n/2) bytes,
\* then header 0x40 with the remaining floor(n/2) bytes
C14_Original ==
    \A t \in Tasks :
       C14_Done(t) => (C14_Split(t) /\ task[t].wr[1][1] = 0)

\* C15: write_calendar_day issues its device writes in this order: the day
\* number to the control characteristic, the two frames of the 49-byte
\* record to the calendar day characteristic, then 0 to the control
\* characteristic; the store request is issued if and only if both frame
\* writes succeeded, and True is returned only after it
C15_Sequence(t) ==
    <<Written("CALENDAR_CONTROL_UUID", <<task[t].day>>),
      Written("CALENDAR_DAY_UUID", ChunkPacket(task[t].data, 0)),
      Written("CALENDAR_DAY_UUID", ChunkPacket(task[t].data, 1)),
      Written("CALENDAR_CONTROL_UUID", <<0>>)>>

C15_Order ==
    \A t \in Tasks :
       task[t].op = "write_calendar_day" =>
          /\ Len(task[t].wlog) <= 4
          /\ task[t].wlog = SubSeq(C15_Sequence(t), 1, Len(task[t].wlog))
          /\ task[t].pc = "wc_commit" => Len(task[t].wlog) = 3
          /\ (task[t].pc = "ret" /\ task[t].res.val = TrueV)
                => Len(task[t].wlog) = 4

\* a call whose two frame writes have succeeded goes on to the store request
C15_CommitFollows ==
    \A t \in Tasks :
       (task[t].op = "write_calendar_day" /\ Len(task[t].wlog) = 3
           /\ task[t].pc \in {"ws_sleep", "wc_after", "wc_sleep"}
           /\ task'[t] # task[t])
          => task'[t].pc \in {"wc_after", "wc_sleep", "wc_commit"}

C15_WriteSequence == []C15_Order /\ [][C15_CommitFollows]_vars

\* C16: writing three enabled programs for day 2 and reading day 2 back from
\* a device that stored the 49-byte record yields those three programs in
\* the same order with identical offsets, followed by the three unused slots
\* as disabled, zeroed programs
C16_Unused == Program(0, 0, 0, 0, 0, 0, FALSE)

C16_ReadBack(t) ==
    /\ task[t].op = "read_calendar_day"
    /\ task[t].pc = "ret"
    /\ task[t].day = 2
    /\ thermostat.days[2] = CalendarRecord(2, ThreePrograms)
    /\ C13_Payload(task[t].frames) = thermostat.days[2]

C16_RoundTrip ==
    \A t \in Tasks :
       C16_ReadBack(t) =>
          task[t].res.val = [k |-> "calendar", day |-> 2,
                             programs |-> ThreePrograms
                                          \o <<C16_Unused, C16_Unused, C16_Unused>>]

\* what the code returns for that read: the three programs only, the third
\* with its offset of 2.30 degrees as 2.29
C16_Returned ==
    \E t \in Tasks :
       /\ C16_ReadBack(t)
       /\ task[t].res.val = [k |-> "calendar", day |-> 2,
                             programs |-> <<ThreePrograms[1], ThreePrograms[2],
                                            [ThreePrograms[3] EXCEPT !.temp_offset = 229]>>]

\* C17: write_vacation_time reads the current record first and the write it
\* then issues carries in byte 14 the vacation mode the device has at that
\* read and in byte 13 the `enabled` argument; no call changes the device's
\* mode byte
C17_WritesCurrentMode ==
    \A t \in Tasks :
       (task[t].pc = "wv_read" /\ task'[t].pc = "wv_write") =>
          /\ task'[t].data[VacationRecordLen] = DeviceMode(thermostat)
          /\ task'[t].data[VacationRecordLen - 1] = (IF task[t].args.enabled THEN 1 ELSE 0)

C17_ModeKept ==
    (\E t \in Tasks : task[t].pc = "wv_write" /\ task'[t].pc # "wv_write")
       => DeviceMode(thermostat') = DeviceMode(thermostat)

C17_ActivePreserved == [][C17_WritesCurrentMode /\ C17_ModeKept]_vars

\* C18: write_vacation_time rejects a period whose start is not strictly
\* before its end: it returns failure and sends no write
C18_Reversed(t) ==
    /\ task[t].op = "write_vacation_time"
    /\ ~Before(task[t].args.time_from, task[t].args.time_to)

C18_RejectsReversedPeriod ==
    \A t \in Tasks :
       C18_Reversed(t) =>
          /\ task[t].pc # "wv_write"
          /\ task[t].pc = "ret" => task[t].res.val = FalseV

\* C19: a write operation given an argument outside its documented range
\* fails before any I/O: no GATT read or write of the call reaches the device
C19_OutOfRange(t) ==
    \/ /\ task[t].op = "write_vacation_time"
       /\ \/ ~(-2000 <= task[t].args.offset_temperature
               /\ task[t].args.offset_temperature <= 2000)
          \/ ~(-100 <= task[t].args.offset_percentage
               /\ task[t].args.offset_percentage <= 100)
    \/ /\ task[t].op = "write_calendar_day"
       /\ \/ ~(1 <= task[t].day /\ task[t].day <= 7)
          \/ Len(task[t].programs) > MaxPrograms

C19_NoIOWhenOutOfRange ==
    \A t \in Tasks :
       C19_OutOfRange(t) =>
          /\ task[t].pc \notin {"wv_read", "wv_write", "wc_select", "ws_write",
                                "wc_commit"}
          /\ task[t].wlog = <<>>
          /\ task[t].pc = "ret" => task[t].res.val = FalseV

\* C20: once cleanup() has completed the session stays disconnected: the
\* client is None, no transport link is up and no operation, later or
\* running concurrently, holds or re-establishes a transport handle
C20_CleanedUp == \E t \in Tasks : task[t].op = "cleanup" /\ task[t].pc = "done"

C20_TerminalDisconnected ==
    C20_CleanedUp =>
       /\ client = None
       /\ linkUp = {}
       /\ \A t \in Tasks : task[t].reqH = None

\* C21: at most one GATT request (read or write) is in flight on a link at
\* any time, whatever operations are invoked concurrently
C21_GattPcs ==
    {"rb_read", "rs_read", "ws_write", "wc_select", "wc_commit", "rc_select",
     "wv_read", "wv_write", "c_read_frid", "c_write_frid", "c_read_model",
     "c_read_name"}

C21_InFlight(h) ==
    {t \in Tasks : task[t].pc \in C21_GattPcs /\ task[t].reqH = h}

C21_OneRequestPerLink ==
    \A h \in 1..MaxHandles : Cardinality(C21_InFlight(h)) <= 1

\* C22: no decoder turns a sentinel into a number: a room or floor
\* temperature field of 0x7FFF in the live status decodes to "no data", not
\* to 3276.7 (32767 tenths)
C22_Decoded(t) ==
    /\ task[t].op = "parse_real_time_indication"
    /\ task[t].pc = "ret"
    /\ Len(task[t].raw) >= MinRealTimeLen

C22_SentinelIsNoData ==
    \A t \in Tasks :
       C22_Decoded(t) =>
          /\ Slice(task[t].raw, 3, 5) = <<255, 127>>
                => task[t].res.val.room_temperature # 32767
          /\ Slice(task[t].raw, 5, 7) = <<255, 127>>
                => task[t].res.val.floor_temperature # 32767

\* the live-status decoder returns 3276.7 for the sentinel
C22_Returned ==
    \E t \in Tasks :
       /\ C22_Decoded(t)
       /\ task[t].raw = RecordUnset
       /\ task[t].res.val.room_temperature = 32767

\* a read_boost has returned a record
C23_ReadBack(t) ==
    /\ task[t].op = "read_boost" /\ task[t].pc = "ret"
    /\ task[t].res.val.k = "boost"

\* a reader of a setting has returned a value
C23_SettingReadBack(t) ==
    /\ task[t].op \in SettingReaders /\ task[t].pc = "ret"
    /\ task[t].res.val # NoneV

\* the value the reader of a setting is expected to return for the
\* arguments of its writer
C23_Expected(o, a) ==
    CASE o = "write_heating_mode" ->
            [k |-> "heating_mode", mode_number |-> a.mode, mode_name |-> MODE_MAP(a.mode)]
      [] o = "write_adaptive_temp_control" -> [k |-> "adaptive", enabled |-> a.enabled]
      [] o = "write_date_and_time" ->
            [k |-> "date_and_time", year |-> a.year, month |-> a.month, day |-> a.day,
             hour |-> a.hour, minute |-> a.minute, second |-> a.second]
      [] o = "write_daylight_saving" ->
            [k |-> "daylight_saving", enabled |-> a.enabled,
             winter_to_summer_offset |-> a.winter_to_summer,
             summer_to_winter_offset |-> a.summer_to_winter,
             timezone_offset |-> a.timezone_offset]
      [] o = "write_floor_limits" ->
            [k |-> "floor_limits", low_value |-> a.low_value, high_value |-> a.high_value]
      [] o = "write_room_sensor_calibration" ->
            [k |-> "calibration", calibration_value |-> a.value \div 10]
      [] o = "write_heating_power" -> [k |-> "heating_power", heating_power |-> a.value]
      [] o = "write_floor_area" -> [k |-> "floor_area", floor_area |-> a.value]
      [] o = "write_energy_unit" ->
            [k |-> "energy_unit", currency_code |-> a.currency,
             currency_name |-> CURRENCY_MAP(a.currency),
             currency_symbol |-> CURRENCY_SYMBOLS(a.currency), price |-> a.price]
      [] OTHER -> [k |-> "calendar_mode", enabled |-> a.enabled]

\* the arguments are in range and in the unit of the format (a calibration
\* is a number of tenths)
C23_InUnit(o, a) ==
    /\ SettingArgsValid(o, a)
    /\ o = "write_room_sensor_calibration" => a.value % 10 = 0

\* C23: for every in-range value the bytes produced by a write decode
\* through the corresponding read to exactly that value: a read_boost that
\* is answered with the record a write_boost call has stored returns the
\* same enabled flag, temperature offset, percentage offset and duration,
\* with remaining minutes 0, and the reader of a setting (heating mode,
\* adaptive control, date and time, daylight saving, floor limits, room
\* calibration, heating power, floor area, energy unit, calendar mode)
\* that is answered with the bytes of its writer returns the written values
C23_RoundTrip ==
    \A t \in Tasks :
       /\ C23_ReadBack(t) =>
             \A a \in BoostInputs :
                (BoostArgsValid(a) /\ task[t].raw = BoostRecord(a)) =>
                   /\ task[t].res.val.enabled = a.enabled
                   /\ task[t].res.val.offset_degrees = a.offset_degrees
                   /\ task[t].res.val.offset_percentage = a.offset_percentage
                   /\ task[t].res.val.setpoint_minutes = a.duration_minutes
                   /\ task[t].res.val.remaining_minutes = 0
       /\ C23_SettingReadBack(t) =>
             \A c \in SettingCalls :
                (/\ c.op \in SettingWriters
                 /\ SettingWriterOf(c.op) = c.op
                 /\ SettingUuid(c.op) = task[t].uuid
                 /\ C23_InUnit(c.op, c.args)
                 /\ task[t].raw = SettingData(c.op, c.args)) =>
                   task[t].res.val = C23_Expected(c.op, c.args)

\* a temperature offset of 2.30 degrees, written and acknowledged, is read
\* back as 2.29
C23_Returned ==
    \E t \in Tasks :
       /\ C23_ReadBack(t)
       /\ task[t].raw = BoostRecord(BoostArgs(TRUE, 230, 10, 60))
       /\ task[t].res.val.offset_degrees = 229

\* C24: the live-status bytes [0xC8,0x00, 50, 0xC8,0x00, 0x00,0x00, 1,
\* 0x00,0x00, 2, 2, 0,...] decode to target temperature 20.0, setting 50 %,
\* room temperature 0.0, floor temperature 0.0, relay on, no alarms, active
\* mode Calendar and heating mode Room
C24_Decoded(t) ==
    /\ task[t].op = "parse_real_time_indication"
    /\ task[t].pc = "ret"
    /\ task[t].raw = RecordC8

C24_Common(v) ==
    /\ Truthy(v)
    /\ v.target_temperature = 200
    /\ v.temperature_setting_percent = 50
    /\ v.floor_temperature = 0
    /\ v.relay_active
    /\ v.active_alarms = <<>>

C24_Original ==
    \A t \in Tasks :
       C24_Decoded(t) =>
          /\ C24_Common(task[t].res.val)
          /\ task[t].res.val.room_temperature = 0
          /\ task[t].res.val.active_mode = "Calendar"
          /\ task[t].res.val.heating_mode = "Room"

\* C24 as the decoder has it: bytes 3-4 are the room temperature (20.0) and
\* bytes 12 and 13, both 0 here, are the modes (both "Unknown"); the two 2s
\* sit in the reserved alarm bytes 10 and 11
C24_Amended ==
    \A t \in Tasks :
       C24_Decoded(t) =>
          /\ C24_Common(task[t].res.val)
          /\ task[t].res.val.room_temperature = 200
          /\ task[t].res.val.active_mode = "Unknown"
          /\ task[t].res.val.heating_mode = "Unknown"

C24_Witness == \E t \in Tasks : C24_Decoded(t) /\ Truthy(task[t].res.val)

\* C25: once an authentication id is stored for the device, no connect()
\* overwrites it or sends a different one, whatever id the device itself
\* would answer with: a step that puts an id in the credential store starts
\* from a store with no id, every authentication write carries an id, and
\* it is the stored one wherever an id is stored (async_remove_device_data
\* may have removed the entry meanwhile)
C25_AuthCarriesStored ==
    /\ \A i \in 1..Len(hlog) :
          hlog[i].e = "write_frid" =>
             /\ hlog[i].v # None
             /\ store # None => hlog[i].v = store
    /\ \A t \in Tasks :
          task[t].pc = "c_write_frid" =>
             /\ task[t].sid # None
             /\ store # None => task[t].sid = store

C25_WrittenWhenAbsent == (store' # store /\ store' # None) => store = None

C25_IdImmutable == []C25_AuthCarriesStored /\ [][C25_WrittenWhenAbsent]_vars

\* a reconnect to a device that now answers with another id has sent its
\* authentication write with the stored id, and the stored id is unchanged
C25_Witness ==
    /\ HasEv("load") /\ hlog[Pos("load")].v = store
    /\ HasEv("write_frid") /\ hlog[Pos("write_frid")].v = store
    /\ store # None
    /\ store # FactoryResetIdOf(thermostat.frid)

\* C26: during first-time pairing, if reading the factory-reset id fails or
\* yields 0 the connect attempt fails: nothing is saved to the credential
\* store, no authentication write is sent and client is None
C26_ReadFailure ==
    \A t \in Tasks :
       (task[t].pc = "c_read_frid" /\ task'[t].pc \notin {"c_read_frid", "c_save"}) =>
          /\ task'[t].pc = "c_ret"
          /\ task'[t].exc # "none"
          /\ client' = None
          /\ store' = None
          /\ authDone' = authDone
          /\ ~HasEv("save")' /\ ~HasEv("write_frid")'

\* the id that goes on to be saved is a non-zero id the device sent
C26_SavedIdFromDevice ==
    \A t \in Tasks :
       task[t].pc \in {"c_save", "c_store"} => task[t].sid = 263

C26_NoDegradedReady == []C26_SavedIdFromDevice /\ [][C26_ReadFailure]_vars

C26_Witness ==
    \E t \in Tasks :
       /\ task[t].pc = "c_ret" /\ task[t].exc # "none"
       /\ FirstTimePairing
       /\ hlog[Len(hlog)].e = "load"
       /\ store = None /\ client = None /\ authDone = {}


\* ---------------------------------------------------------------------------
\* C27: connect() fails with a device-not-found error when discovery has no
\* device for the address: the step that leaves the lookup with an error
\* starts from a session that is not connected, opens no transport, pairs
\* nothing, neither reads nor writes the credential store, issues no GATT
\* request, and leaves the session Disconnected with no client handle.
C27_NotFoundStep ==
    \A t \in Tasks :
       (task[t].pc = "c_locked" /\ task'[t].pc = "c_ret" /\ task'[t].exc # "none") =>
          /\ ~ClientConnected
          /\ task'[t].exc = "other"
          /\ nOpened' = nOpened /\ linkUp' = linkUp
          /\ authDone' = authDone /\ linkErr' = linkErr
          /\ hlog' = hlog
          /\ store' = store
          /\ task'[t].reqH = None
          /\ client' = None
          /\ ~ClientConnected'
          /\ connect_lock' = Release(connect_lock)

C27_DeviceNotFound == [][C27_NotFoundStep]_vars

\* connect() has failed at the lookup before any transport was ever opened
C27_Witness ==
    \E t \in Tasks :
       /\ task[t].pc = "c_ret" /\ task[t].exc = "other"
       /\ nOpened = 0 /\ hlog = <<>>
       /\ client = None /\ linkUp = {} /\ authDone = {}


\* ---------------------------------------------------------------------------
\* C28: an operation that fails with a non-transport error leaves the
\* long-lived state unchanged.  For get_real_time_data the non-transport
\* failure is a decode failure: the chunked read returned a payload that is
\* not empty but shorter than a live-status record.  The step that ends such
\* a call leaves the client handle, the links that are up, the cached value
\* and its timestamp as they were.
C28_DecodeFailure(t) ==
    /\ task[t].op = "get_real_time_data"
    /\ task[t].pc = "g_after"
    /\ task[t].exc = "none"
    /\ task[t].raw # <<>>
    /\ Len(task[t].raw) < MinRealTimeLen

C28_LongLivedUnchanged ==
    /\ client' = client
    /\ linkUp' = linkUp
    /\ last_data' = last_data
    /\ last_update' = last_update

C28_Step ==
    \A t \in Tasks :
       (C28_DecodeFailure(t) /\ task'[t].pc = "ret") => C28_LongLivedUnchanged

C28_LocalFailure == [][C28_Step]_vars


\* ---------------------------------------------------------------------------
\* C29: a public operation makes at most one connection attempt and never
\* re-issues a failed GATT request.  C29_Stage orders the positions of a call:
\* 0 before its ensure_connection(), 1..12 the steps of connect() in program
\* order, 13 after connect() has returned.  Within one call the stage never
\* decreases, and establish_connection is entered from the lookup only, so a
\* call reaches establish_connection at most once; a call with a failure on
\* record (an exception in flight or a BleakError reported) is on its way out
\* and gets no further request pending.
C29_ConnectPcs ==
    <<"connect", "c_lock", "c_locked", "c_establish", "c_pair", "c_load",
      "c_read_frid", "c_save", "c_store", "c_write_frid", "c_read_model", "c_read_name",
      "c_ret">>

C29_Stage(p) ==
    IF p \in {"read_calendar_day", "write_calendar_day", "rc_select", "rc_sleep",
              "wc_select", "ensure_connection"}
    THEN 0
    ELSE IF \E i \in 1..Len(C29_ConnectPcs) : C29_ConnectPcs[i] = p
    THEN CHOOSE i \in 1..Len(C29_ConnectPcs) : C29_ConnectPcs[i] = p
    ELSE Len(C29_ConnectPcs) + 1

C29_SameCall(t) ==
    /\ task[t].pc \notin {"idle", "done"}
    /\ task'[t].pc \notin {"idle", "done"}

C29_Forward ==
    \A t \in Tasks :
       C29_SameCall(t) =>
          /\ C29_Stage(task'[t].pc) >= C29_Stage(task[t].pc)
          /\ (task'[t].pc = "c_establish" /\ task[t].pc # "c_establish")
                => task[t].pc = "c_locked"
          /\ (task[t].pc = "c_establish" /\ task'[t] # task[t])
                => task'[t].pc \in {"c_pair", "c_ret"}

C29_OnTheWayOut ==
    \A t \in Tasks :
       task[t].exc # "none" =>
          /\ task[t].reqH = None
          /\ task[t].pc \in {"c_ret", "ret", "g_after", "rc_after", "wc_after"}

C29_NoReissue ==
    \A t \in Tasks :
       /\ (C29_SameCall(t) /\ (task[t].gerr \/ task[t].exc # "none"))
             => task'[t].reqH = None
       /\ (task'[t].gerr /\ ~task[t].gerr)
             => task'[t].pc \in {"c_ret", "ret", "g_after", "rc_after", "wc_after"}

C29_SingleAttempt == []C29_OnTheWayOut /\ [][C29_Forward /\ C29_NoReissue]_vars

\* write_calendar_day has selected the day on the first link, found the
\* link down in write_split_characteristic, connected again and has its
\* first packet pending on the new link
C29_Witness ==
    \E t \in Tasks :
       /\ task[t].op = "write_calendar_day"
       /\ task[t].pc = "ws_write"
       /\ Len(task[t].wlog) = 1
       /\ nOpened = 2
       /\ task[t].reqH = 2
       /\ client = 2


\* ---------------------------------------------------------------------------
\* C30: read_calendar_day(day) with day in 1..7 has written the day number
\* to the calendar control characteristic before it issues any read of the
\* calendar day characteristic; a reassembled payload that is the day byte
\* only yields a successful result with zero programs; with a day outside
\* 1..7 the call returns None and issues no GATT operation.
C30_Reading(t) ==
    \/ task[t].pc = "rs_read"
    \/ task[t].nfr > 0
    \/ task[t].frames # <<>>

C30_SelectedFirst ==
    \A t \in Tasks :
       (task[t].op = "read_calendar_day" /\ C30_Reading(t)) =>
          /\ task[t].day \in 1..7
          /\ task[t].uuid = "CALENDAR_DAY_UUID"
          /\ task[t].wlog = <<Written("CALENDAR_CONTROL_UUID", <<task[t].day>>)>>

C30_OutOfRange ==
    \A t \in Tasks :
       (task[t].op = "read_calendar_day" /\ task[t].day \notin 1..7) =>
          /\ task[t].pc \in {"read_calendar_day", "ret"}
          /\ task[t].reqH = None
          /\ task[t].wlog = <<>>
          /\ ~C30_Reading(t)
          /\ task[t].pc = "ret" => task[t].res.val = NoneV

C30_DayByteOnly ==
    \A t \in Tasks :
       (/\ task[t].op = "read_calendar_day"
        /\ task[t].pc = "rc_after"
        /\ task[t].exc = "none"
        /\ Len(task[t].raw) = 1
        /\ task'[t].pc = "ret") =>
          task'[t].res.val = [k |-> "calendar", day |-> task[t].raw[1],
                              programs |-> <<>>]

C30_ReadCalendarDay ==
    [](C30_SelectedFirst /\ C30_OutOfRange) /\ [][C30_DayByteOnly]_vars

\* day 2 was selected, both packets of its record were read, the padding
\* stripped to the day byte, and the call returns day 2 with no programs
C30_Witness ==
    \E t \in Tasks :
       /\ task[t].op = "read_calendar_day"
       /\ task[t].pc = "ret"
       /\ task[t].day = 2
       /\ task[t].wlog = <<Written("CALENDAR_CONTROL_UUID", <<2>>)>>
       /\ Len(task[t].frames) = 2
       /\ task[t].raw = <<2>>
       /\ task[t].res.val = [k |-> "calendar", day |-> 2, programs |-> <<>>]


\* ---------------------------------------------------------------------------
\* C31: a history payload shorter than its minimum valid length is a decode
\* failure, never a partial result: what read_monitoring_data returns is
\* None or holds all 7 daily, 12 monthly and 168 hourly samples, and what
\* read_power_consumption returns is None or comes from a whole record.
C31_Returned(t, o) ==
    /\ task[t].op = o
    /\ task[t].pc = "ret"

C31_NoPartialResult ==
    \A t \in Tasks :
       /\ (C31_Returned(t, "read_monitoring_data") /\ task[t].res.val.k # "None") =>
             /\ Len(task[t].res.val.daily_power) = 7
             /\ Len(task[t].res.val.monthly_power) = 12
             /\ Len(task[t].res.val.temperature_history) = 168
       /\ (C31_Returned(t, "read_power_consumption") /\ task[t].res.val.k # "None") =>
             Len(task[t].raw) >= PowerRecordLen


\* ---------------------------------------------------------------------------
\* C32: every decoded history sample's timestamp equals its section's header
\* timestamp minus the sample's delta in the section's unit: days for daily
\* power, calendar months for monthly power, hours for the temperature
\* history and the hourly power ratios; also for header days 29 to 31.
C32_Monitoring(raw, val) ==
    /\ \A i \in 1..Len(val.daily_power) :
          val.daily_power[i].time =
             HoursSince2000(2000 + raw[3], raw[2], raw[1], 0) - 24 * raw[2 * i + 2]
    /\ \A i \in 1..Len(val.monthly_power) :
          val.monthly_power[i].time =
             MonthsBefore(2000 + raw[21], raw[20], raw[2 * i + 20])
    /\ \A i \in 1..Len(val.temperature_history) :
          val.temperature_history[i].time =
             HoursSince2000(2000 + raw[51], raw[50], raw[49], raw[48])
             - raw[51 + 5 * (i - 1) + 1]

C32_Power(raw, val) ==
    \A i \in 1..Len(val.measurements) :
       \E j \in 1..24 :
          /\ val.measurements[i].ratio = raw[2 * j + 4]
          /\ val.measurements[i].timestamp =
                HoursSince2000(2000 + raw[4], raw[3], raw[2], raw[1]) - raw[2 * j + 3]

C32_SampleTimes ==
    \A t \in Tasks :
       /\ (C31_Returned(t, "read_monitoring_data") /\ task[t].res.val.k # "None") =>
             C32_Monitoring(task[t].raw, task[t].res.val)
       /\ (C31_Returned(t, "read_power_consumption") /\ task[t].res.val.k # "None") =>
             C32_Power(task[t].raw, task[t].res.val)


\* ---------------------------------------------------------------------------
\* C33: the coordinator's cached value and its capture timestamp are set
\* together: _last_update is None exactly when _last_data is None, and the
\* only step that changes either is the completion of a read, which stores
\* the decoded value and the call's timestamp in the same step.
C33_SetTogether == (last_update = None) <=> (last_data = NoneV)

C33_AtomicReplace ==
    (last_data' # last_data \/ last_update' # last_update) =>
       \E t \in Tasks :
          /\ task[t].op = "get_real_time_data"
          /\ task[t].pc = "g_after" /\ task'[t].pc = "ret"
          /\ task[t].exc = "none" /\ task[t].raw # <<>>
          /\ last_data' = parse_real_time_indication(task[t].raw)
          /\ last_update' = task[t].now
          /\ last_update' # None

C33_CachePaired == []C33_SetTogether /\ [][C33_AtomicReplace]_vars

\* a reading taken after the clock has advanced is cached with its
\* timestamp and handed to the caller
C33_Witness ==
    \E t \in Tasks :
       /\ task[t].op = "get_real_time_data"
       /\ task[t].pc = "ret"
       /\ Truthy(last_data)
       /\ task[t].res.val = last_data
       /\ last_update = task[t].now
       /\ last_update > 1


\* ---------------------------------------------------------------------------
\* C34: no characteristic read or write other than the handshake of the
\* connect sequence is issued on a transport handle before that handle's
\* authentication write has completed: a request of an operation that is
\* pending on a handle is pending on an authenticated handle.
C34_OperationPcs == {"rb_read", "rs_read", "ws_write"}

C34_AuthenticatedFirst ==
    \A t \in Tasks :
       (task[t].pc \in C34_OperationPcs /\ task[t].reqH # None) =>
          task[t].reqH \in authDone


\* ---------------------------------------------------------------------------
\* C35: when connect() fails after the transport was established, the
\* established link is closed: at the point where connect() raises, the
\* handle establish_connection returned is no longer up.
C35_ClosedOnFailure ==
    \A t \in Tasks :
       (/\ task[t].pc = "c_ret"
        /\ task[t].exc # "none"
        /\ HasEv("establish")) =>
          hlog[Pos("establish")].v \notin linkUp


\* ---------------------------------------------------------------------------
\* C36: the connect lock is released on every exit path of connect(): it is
\* held only by a task that is inside the locked part of connect(), a task
\* that has left connect() (returning or raising) does not hold it, and
\* every connect() waiting for the lock eventually acquires it.
C36_LockedPcs ==
    {"c_locked", "c_establish", "c_pair", "c_load", "c_read_frid", "c_save",
     "c_store", "c_write_frid", "c_read_model", "c_read_name"}

C36_HeldOnlyInside ==
    /\ connect_lock.owner # 0 => task[connect_lock.owner].pc \in C36_LockedPcs
    /\ \A t \in Tasks :
          task[t].pc \in C36_LockedPcs => connect_lock.owner = t

C36_ReleasedOnExit ==
    \A t \in Tasks :
       (task[t].pc \in C36_LockedPcs /\ task'[t].pc \notin C36_LockedPcs) =>
          /\ task'[t].pc = "c_ret"
          /\ connect_lock'.owner = 0
          /\ connect_lock'.waiters = connect_lock.waiters

C36_LockReleased ==
    /\ []C36_HeldOnlyInside
    /\ [][C36_ReleasedOnExit]_vars
    /\ \A t \in Tasks : (task[t].pc = "c_lock") ~> (task[t].pc = "c_locked")

\* a failing connect() has just released the lock while another connect()
\* is queued for it
C36_Witness ==
    \E t, u \in Tasks :
       /\ task[t].pc = "c_lock"
       /\ connect_lock.waiters = <<t>>
       /\ connect_lock.owner = 0
       /\ task[u].pc = "c_ret"
       /\ task[u].exc # "none"


\* ---------------------------------------------------------------------------
\* C37: read_split_characteristic terminates once the device returns a frame
\* with the final flag, an empty frame or an error, and issues no further
\* read after the first such frame; it has no frame-count bound of its own:
\* after a frame that is neither empty nor final it reads again, however
\* many frames it has read.
\* bit 0x40 of the header byte of a frame that is not empty
C37_Final(f) == (f[1] \div 64) % 2 = 1

C37_Reading(t) == task[t].pc = "rs_read"

C37_ReadStep ==
    \A t \in Tasks :
       (C37_Reading(t) /\ task'[t] # task[t] /\ task'[t].conc = task[t].conc) =>
          IF C37_Reading(t)'
          THEN \* another read was issued: the frame was neither empty nor final
               /\ task'[t].nfr = task[t].nfr + 1
               /\ task'[t].frames # <<>>
               /\ LET f == task'[t].frames[Len(task'[t].frames)]
                  IN f # <<>> /\ ~C37_Final(f)
               /\ task'[t].reqH = client' /\ client' # None
          ELSE \* the call has ended: an error, or an empty or final frame
               /\ task'[t].pc = AfterReadSplit(task[t].op)
               /\ task'[t].reqH = None
               /\ \/ task'[t].exc # "none"
                  \/ /\ task'[t].frames # <<>>
                     /\ LET f == task'[t].frames[Len(task'[t].frames)]
                        IN f = <<>> \/ C37_Final(f)

\* every frame but the last of a chunked read is neither empty nor final
C37_NoReadAfterLast ==
    \A t \in Tasks :
       \A i \in 1..(Len(task[t].frames) - 1) :
          /\ task[t].frames[i] # <<>>
          /\ ~C37_Final(task[t].frames[i])

C37_Terminates ==
    /\ []C37_NoReadAfterLast
    /\ [][C37_ReadStep]_vars
    /\ \A t \in Tasks : C37_Reading(t) ~> ~C37_Reading(t)

\* a second read is pending after a first frame that was not final
C37_Witness ==
    \E t \in Tasks :
       /\ C37_Reading(t)
       /\ task[t].nfr = 1
       /\ Len(task[t].frames) = 1
       /\ ~C37_Final(task[t].frames[1])


\* ---------------------------------------------------------------------------
\* C38: whenever the device returns a live-status record of at least 20
\* bytes, get_real_time_data returns the decoded status with every field and
\* caches it, also when the record ends in zero bytes.
C38_WholeRecord(t) ==
    /\ task[t].op = "get_real_time_data"
    /\ task[t].pc = "g_after"
    /\ task[t].exc = "none"
    /\ Len(C13_Payload(task[t].frames)) >= MinRealTimeLen

C38_Step ==
    \A t \in Tasks :
       (C38_WholeRecord(t) /\ task'[t].pc = "ret") =>
          /\ Truthy(task'[t].res.val)
          /\ last_data' = task'[t].res.val

C38_DecodesWholeRecord == [][C38_Step]_vars


\* ---------------------------------------------------------------------------
\* C39: read_calendar_day(d) returns the record of day d also when another
\* calendar operation runs concurrently: while a read of the calendar day
\* characteristic of this call is pending, the day the device has selected
\* is still d (no other control write came in between), and a result that
\* is returned is the record of day d.
C39_SelectionKept ==
    \A t \in Tasks :
       (task[t].op = "read_calendar_day" /\ task[t].pc = "rs_read") =>
          thermostat.sel = task[t].day

C39_RecordOfDay ==
    \A t \in Tasks :
       (/\ task[t].op = "read_calendar_day"
        /\ task[t].pc = "ret"
        /\ task[t].res.val.k = "calendar") =>
          task[t].res.val.day = task[t].day

C39_Isolated == C39_SelectionKept /\ C39_RecordOfDay


\* int(c / 100 * 10) for a temperature of c hundredths: the tenths of c,
\* cut toward zero
C40_Tenths(c) ==
    CHOOSE v \in -200..350 : \/ c >= 0 /\ 10 * v <= c /\ c < 10 * v + 10
                             \/ c < 0 /\ 10 * v - 10 < c /\ c <= 10 * v

C40_Clamped(lo, hi, x) == IF x < lo THEN lo ELSE IF x > hi THEN hi ELSE x

\* the bytes write_force_control may change (1-based positions of bytes
\* 8-9, 12-13 and 17)
C40_Changed == {9, 10, 13, 14, 18}

C40_Called(t) ==
    task[t].op = "write_force_control" /\ task[t].pc = "ret"

\* C40: write_force_control is a read-modify-write: the record it writes is
\* the record it has just read with only bytes 8-9 (the temperature clamped
\* to 5..35 degrees, times 10), bytes 12-13 (the offset clamped to -20..20
\* degrees, times 10, signed) and byte 17 (the mode, only when it is a known
\* external-control mode) replaced; and it writes nothing when the record
\* read is shorter than 19 bytes
C40_ReadModifyWrite ==
    \A t \in Tasks :
       C40_Called(t) =>
          /\ Len(task[t].raw) < 19 => task[t].wlog = <<>>
          /\ Len(task[t].wlog) <= 1
          /\ \A k \in 1..Len(task[t].wlog) :
               LET w == task[t].wlog[k].bytes
                   a == task[t].args
               IN  /\ task[t].wlog[k].c = "FORCE_CONTROL_UUID"
                   /\ Len(w) = Len(task[t].raw)
                   /\ \A i \in (1..Len(w)) \ C40_Changed : w[i] = task[t].raw[i]
                   /\ FromBytesLE(<<w[9], w[10]>>)
                        = C40_Tenths(C40_Clamped(500, 3500, a.temperature))
                   /\ FromBytesLESigned(<<w[13], w[14]>>)
                        = C40_Tenths(C40_Clamped(-2000, 2000, a.temperature_offset))
                   /\ w[18] = IF a.mode \in ExternalControlModes
                              THEN a.mode
                              ELSE task[t].raw[18]

\* a record was written back for a mode that is not known and settings
\* beyond both ranges
C40_Witness ==
    \E t \in Tasks :
       /\ C40_Called(t)
       /\ task[t].wlog # <<>>
       /\ task[t].args.mode \notin ExternalControlModes
       /\ task[t].args.temperature > 3500
       /\ task[t].args.temperature_offset < -2000
       /\ Len(task[t].raw) > 19

====
